---- MODULE Spec2Model ----
(***************************************************************************)
(* Model of the streaming decoder of the Qwen provider,                    *)
(* rig-core/src/providers/qwen.rs, send_qwen_streaming_request.            *)
(*                                                                         *)
(* Strings the decoder slices or compares by prefix (content,              *)
(* reasoning_content, tool-call arguments, raw payloads) are sequences of  *)
(* characters.  A character of ASCII is the string of that character; a    *)
(* character outside ASCII, or one with no escape in a TLA+ string, is     *)
(* the string of its code point, "U+00E9".  The length of a Rust string    *)
(* is its number of bytes in UTF-8 (ByteLen), not its number of            *)
(* characters (Len).  Identifiers and names are TLA+ strings.              *)
(* Option<T> is a sequence of length 0 (None) or 1 (Some).                 *)
(***************************************************************************)
EXTENDS Integers, Sequences, FiniteSets, TLC

\* ------------------------------------------------------------------------
\* Bounds of the model
\* ------------------------------------------------------------------------
MaxEvents == 3      \* Open/Message events the Event Source delivers in a run
MaxStr == 2         \* longest content / reasoning_content value of a chunk

\* ------------------------------------------------------------------------
\* String helpers (str::starts_with, slicing, trim)
\* ------------------------------------------------------------------------
\* the characters the model writes by code point, by their width in UTF-8
OneByte == {"U+000B"}
TwoBytes == {"U+0085", "U+00A0", "U+00E9"}
ThreeBytes ==
    {"U+1680", "U+2000", "U+2001", "U+2002", "U+2003", "U+2004", "U+2005",
     "U+2006", "U+2007", "U+2008", "U+2009", "U+200A", "U+2028", "U+2029",
     "U+202F", "U+205F", "U+3000"}

\* char::len_utf8
LenUtf8(c) == IF c \in TwoBytes THEN 2 ELSE IF c \in ThreeBytes THEN 3 ELSE 1

\* str::len: the number of bytes, counted as the pairs of a character and
\* one of its bytes
ByteLen(s) ==
    Cardinality({p \in (1..Len(s)) \X (1..3) : p[2] <= LenUtf8(s[p[1]])})

StartsWith(s, p) == Len(p) <= Len(s) /\ SubSeq(s, 1, Len(p)) = p

\* s without its first n characters
SliceFrom(s, n) == SubSeq(s, n + 1, Len(s))

\* &s[n..]: s without its first n bytes.  The decoder slices only at the
\* length of a prefix of s, which is a character boundary.
SliceFromByte(s, n) ==
    LET k == CHOOSE j \in 0..Len(s) :
                 /\ j = Len(s) \/ ByteLen(SubSeq(s, 1, j)) >= n
                 /\ \A i \in 0..(j - 1) : ByteLen(SubSeq(s, 1, i)) < n
    IN  SubSeq(s, k + 1, Len(s))

\* char::is_whitespace: the code points with the property White_Space
IsWhitespace(c) ==
    c \in {"\t", "\n", "U+000B", "\f", "\r", " ", "U+0085", "U+00A0",
           "U+1680", "U+2000", "U+2001", "U+2002", "U+2003", "U+2004",
           "U+2005", "U+2006", "U+2007", "U+2008", "U+2009", "U+200A",
           "U+2028", "U+2029", "U+202F", "U+205F", "U+3000"}

RECURSIVE TrimStart(_)
TrimStart(s) ==
    IF s # <<>> /\ IsWhitespace(Head(s)) THEN TrimStart(Tail(s)) ELSE s

RECURSIVE TrimEnd(_)
TrimEnd(s) ==
    IF s # <<>> /\ IsWhitespace(s[Len(s)])
    THEN TrimEnd(SubSeq(s, 1, Len(s) - 1)) ELSE s

Trim(s) == TrimEnd(TrimStart(s))

RECURSIVE StringsUpTo(_, _)
StringsUpTo(chars, n) ==
    IF n = 0 THEN {<<>>}
    ELSE LET shorter == StringsUpTo(chars, n - 1)
         IN  shorter \cup {Append(s, c) : s \in shorter, c \in chars}

\* ------------------------------------------------------------------------
\* Whole numbers beyond the integers of TLC, written by their decimal
\* digits, most significant first, without leading zeros (0 is <<"0">>)
\* ------------------------------------------------------------------------
Digits == {"0", "1", "2", "3", "4", "5", "6", "7", "8", "9"}

DigitVal(c) ==
    CASE c = "0" -> 0 [] c = "1" -> 1 [] c = "2" -> 2 [] c = "3" -> 3
      [] c = "4" -> 4 [] c = "5" -> 5 [] c = "6" -> 6 [] c = "7" -> 7
      [] c = "8" -> 8 [] c = "9" -> 9

DigitOf(n) == <<"0", "1", "2", "3", "4", "5", "6", "7", "8", "9">>[n + 1]

Least(S) == CHOOSE x \in S : \A y \in S : x <= y

\* the element of a set of one element.  {F(x) : x \in {e}} is F of the
\* value of e: a recursion takes up an intermediate result this way.
The(S) == CHOOSE x \in S : TRUE

Zeros(k) == [i \in 1..k |-> "0"]

\* the digits without leading zeros
Canonical(n) ==
    LET nonzero == {i \in 1..Len(n) : n[i] # "0"}
    IN  IF nonzero = {} THEN <<"0">> ELSE SubSeq(n, Least(nonzero), Len(n))

\* a < b
Less(a, b) ==
    \/ Len(a) < Len(b)
    \/ /\ Len(a) = Len(b)
       /\ \E i \in 1..Len(a) :
            /\ DigitVal(a[i]) < DigitVal(b[i])
            /\ \A j \in 1..(i - 1) : a[j] = b[j]

IsOdd(n) == DigitVal(n[Len(n)]) % 2 = 1

\* n div 2: the long division carries 1 into a digit that follows an odd one
Halve(n) ==
    Canonical([i \in 1..Len(n) |->
        DigitOf((10 * (IF i > 1 THEN DigitVal(n[i - 1]) % 2 ELSE 0)
                 + DigitVal(n[i])) \div 2)])

\* n * 2: a digit takes a carry from the digit after it when that is 5 or more
Double(n) ==
    Canonical(
        [i \in 1..(Len(n) + 1) |->
            DigitOf((2 * (IF i > 1 THEN DigitVal(n[i - 1]) ELSE 0)
                     + (IF i <= Len(n) /\ DigitVal(n[i]) >= 5 THEN 1 ELSE 0)) % 10)])

\* a + b: a position takes a carry when a position after it overflows and
\* every position between the two holds 9
Plus(a, b) ==
    LET w == 1 + (IF Len(a) > Len(b) THEN Len(a) ELSE Len(b))
        x == Zeros(w - Len(a)) \o a
        y == Zeros(w - Len(b)) \o b
        sum == [i \in 1..w |-> DigitVal(x[i]) + DigitVal(y[i])]
        carry == [i \in 1..w |->
                    IF \E j \in (i + 1)..w :
                           /\ sum[j] >= 10
                           /\ \A k \in (i + 1)..(j - 1) : sum[k] = 9
                    THEN 1 ELSE 0]
    IN  Canonical([i \in 1..w |-> DigitOf((sum[i] + carry[i]) % 10)])

\* a * d for a digit value d
TimesDigit(a, d) ==
    LET a2 == Double(a)
        a4 == Double(a2)
        a8 == Double(a4)
        zero == <<"0">>
    IN  Plus(Plus(IF d % 2 = 1 THEN a ELSE zero,
                  IF (d \div 2) % 2 = 1 THEN a2 ELSE zero),
             Plus(IF (d \div 4) % 2 = 1 THEN a4 ELSE zero,
                  IF d >= 8 THEN a8 ELSE zero))

\* a * b, by the digits of b
RECURSIVE Product(_, _)
Product(a, b) ==
    IF b = <<>> THEN <<"0">>
    ELSE The({Plus(Canonical(p \o <<"0">>), TimesDigit(a, DigitVal(b[Len(b)])))
                : p \in {Product(a, SubSeq(b, 1, Len(b) - 1))}})

RECURSIVE ToInt(_, _)
ToInt(n, acc) ==
    IF n = <<>> THEN acc ELSE ToInt(Tail(n), 10 * acc + DigitVal(Head(n)))

\* ------------------------------------------------------------------------
\* f64: a double that holds a whole number is [m, e] for the number m * 2^e,
\* with e = 0 for a number below 2^53 and 2^52 <= m < 2^53 for the others
\* ------------------------------------------------------------------------
TwoTo52 ==
    <<"4", "5", "0", "3", "5", "9", "9", "6", "2", "7", "3", "7", "0", "4",
      "9", "6">>

\* a double has 53 significant bits
TwoTo53 ==
    <<"9", "0", "0", "7", "1", "9", "9", "2", "5", "4", "7", "4", "0", "9",
      "9", "2">>

\* the largest double is (2^53 - 1) * 2^971
MaxBinaryExp == 971

\* x.q div 2^k, and whether a set bit was shifted out, now or before
RECURSIVE ShiftFrom(_, _)
ShiftFrom(x, k) ==
    IF k <= 0 THEN x
    ELSE IF k = 1 THEN [q |-> Halve(x.q), lost |-> x.lost \/ IsOdd(x.q)]
    ELSE The({ShiftFrom(half, k - k \div 2) : half \in {ShiftFrom(x, k \div 2)}})

\* n div 2^k, and whether a set bit was shifted out
Shift(n, k) == ShiftFrom([q |-> n, lost |-> FALSE], k)

\* the least k in lo..hi for which n div 2^k is below 2^53; hi is such a k
RECURSIVE LeastShift(_, _, _)
LeastShift(n, lo, hi) ==
    IF lo = hi THEN lo
    ELSE LET mid == (lo + hi) \div 2
         IN  IF Less(Shift(n, mid).q, TwoTo53) THEN LeastShift(n, lo, mid)
             ELSE LeastShift(n, mid + 1, hi)

\* q, the half of s.q, or the number after it: the one nearer to the
\* number that s.q was shifted from, and the even one when both are as near
Nearest(s, q) ==
    IF IsOdd(s.q) /\ (s.lost \/ IsOdd(q)) THEN Plus(q, <<"1">>) ELSE q

\* the double r * 2^k, for r up to 2^53
Normal(r, k) ==
    IF r = TwoTo53 THEN [m |-> TwoTo52, e |-> k + 1] ELSE [m |-> r, e |-> k]

\* s is the number with all but the last of k bits shifted out
RoundFrom(s, k) == Normal(Nearest(s, Halve(s.q)), k)

\* the double nearest to n, which needs k bits shifted out
RoundAt(n, k) ==
    IF k = 0 THEN [m |-> n, e |-> 0] ELSE RoundFrom(Shift(n, k - 1), k)

\* the double nearest to n, a tie going to the one with the even m (u64 as
\* f64, and the rounding of a product)
RoundF64(n) == RoundAt(n, LeastShift(n, 0, 4 * Len(n)))

\* the double f * 2^e
Scaled(f, e) == [m |-> f.m, e |-> f.e + e]

\* x * y for doubles
TimesF64(x, y) == Scaled(RoundF64(Product(x.m, y.m)), x.e + y.e)

IsInfinite(f) == f.e > MaxBinaryExp

\* ------------------------------------------------------------------------
\* serde_json::from_str::<serde_json::Value> on the JSON subset of
\* non-negative integers and arrays.  A parsed array is <<"arr", items>>.
\* A parsed number is <<"num", n>> when it is a u64 of at most nine digits,
\* <<"u64", digits>> when it is a longer u64, and <<"float", m, e>>, the
\* double m * 2^e, when it is beyond u64.  The result is an Option.
\* ------------------------------------------------------------------------
\* u64::MAX
U64Max ==
    <<"1", "8", "4", "4", "6", "7", "4", "4", "0", "7", "3", "7", "0", "9",
      "5", "5", "1", "6", "1", "5">>

\* remaining_depth of a Deserializer: each array entered takes one, and the
\* array at which it reaches 0 is refused
RecursionLimit == 128

\* the powers of ten serde_json holds as doubles: 1e0 to 1e308
MaxExp10 == 308

Pow10(k) == RoundF64(<<"1">> \o Zeros(k))

JsonFail == [ok |-> FALSE, val |-> <<>>, next |-> 0]

\* the digits kept as a u64: digits are taken in as long as the number
\* stays within u64::MAX
Significand(digits) ==
    IF Len(digits) <= 19 THEN digits
    ELSE IF ~Less(U64Max, SubSeq(digits, 1, 20)) THEN SubSeq(digits, 1, 20)
    ELSE SubSeq(digits, 1, 19)

\* parse_integer, parse_long_integer and f64_from_parts.  A number beyond
\* u64 becomes a double: the significand as f64, times the power of ten
\* that stands for the digits left out; those digits themselves are not
\* read.  The number is refused when there is no such power of ten or the
\* double is infinite.
Finite(f) == IF IsInfinite(f) THEN <<>> ELSE << <<"float", f.m, f.e>> >>

FloatOf(sig, exponent) == Finite(TimesF64(RoundF64(sig), Pow10(exponent)))

NumberOf(digits) ==
    LET sig == Significand(digits)
        exponent == Len(digits) - Len(sig)
    IN  IF exponent = 0
        THEN IF Len(digits) <= 9 THEN << <<"num", ToInt(digits, 0)>> >>
             ELSE << <<"u64", digits>> >>
        ELSE IF exponent > MaxExp10 THEN <<>>
        ELSE FloatOf(sig, exponent)

\* the first position from i on that holds no digit
DigitsEnd(s, i) ==
    Least({j \in i..(Len(s) + 1) : j > Len(s) \/ s[j] \notin Digits})

\* a number read up to next, or refused
Parsed(number, next) ==
    IF number = <<>> THEN JsonFail
    ELSE [ok |-> TRUE, val |-> number[1], next |-> next]

\* the digits of a number that starts with a non-zero digit at i
ParseDigits(s, i) ==
    Parsed(NumberOf(SubSeq(s, i, DigitsEnd(s, i) - 1)), DigitsEnd(s, i))

\* A number: "0" alone, or a non-zero digit followed by digits.
ParseNumber(s, i) ==
    IF s[i] = "0"
    THEN IF i + 1 <= Len(s) /\ s[i + 1] \in Digits THEN JsonFail
         ELSE [ok |-> TRUE, val |-> <<"num", 0>>, next |-> i + 1]
    ELSE ParseDigits(s, i)

\* depth is the remaining depth of the Deserializer
RECURSIVE ParseValue(_, _, _)
RECURSIVE ParseElems(_, _, _, _)
ParseValue(s, i, depth) ==
    IF i > Len(s) THEN JsonFail
    ELSE IF s[i] \in Digits THEN ParseNumber(s, i)
    ELSE IF s[i] = "[" THEN
        IF depth - 1 = 0 THEN JsonFail
        ELSE IF i + 1 <= Len(s) /\ s[i + 1] = "]"
        THEN [ok |-> TRUE, val |-> <<"arr", <<>>>>, next |-> i + 2]
        ELSE ParseElems(s, i + 1, <<>>, depth - 1)
    ELSE JsonFail

\* The elements of a non-empty array, from the first element on.
ParseElems(s, i, items, depth) ==
    LET v == ParseValue(s, i, depth) IN
    IF ~v.ok THEN JsonFail
    ELSE IF v.next > Len(s) THEN JsonFail
    ELSE IF s[v.next] = "]"
         THEN [ok |-> TRUE, val |-> <<"arr", Append(items, v.val)>>,
               next |-> v.next + 1]
    ELSE IF s[v.next] = ","
         THEN ParseElems(s, v.next + 1, Append(items, v.val), depth)
    ELSE JsonFail

\* the number of arrays open after the first i characters
OpenAt(s, i) ==
    Cardinality({j \in 1..i : s[j] = "["}) - Cardinality({j \in 1..i : s[j] = "]"})

\* at some point d arrays are open at once
Nests(s, d) == \E i \in d..Len(s) : OpenAt(s, i) >= d

\* A text that at some point has RecursionLimit arrays open is refused
\* whatever else it holds: the parser reaches the array that takes the
\* remaining depth to 0, unless it has failed before.  That is settled
\* first, and the descent then stays within the limit.
Whole(s, r) == IF r.ok /\ r.next = Len(s) + 1 THEN <<r.val>> ELSE <<>>

FromStr(s) ==
    IF Nests(s, RecursionLimit) THEN <<>>
    ELSE Whole(s, ParseValue(s, 1, RecursionLimit))

\* ------------------------------------------------------------------------
\* Data model
\* ------------------------------------------------------------------------
None == <<>>
Some(x) == <<x>>

\* Usage { input_tokens, output_tokens, total_tokens }
MkUsage(i, o, t) == [input_tokens |-> i, output_tokens |-> o, total_tokens |-> t]

\* Variant of UsageNew that starts the counters at 1.
UsageNewOnes == MkUsage(1, 1, 1)

\* Usage::new()
UsageNew == MkUsage(0, 0, 0)

\* StreamingToolCall { id, index, function: StreamingFunction { name, arguments } }
MkToolCall(index, id, name, arguments) ==
    [index |-> index, id |-> id, name |-> name, arguments |-> arguments]

\* StreamingMessage { role, content, reasoning_content, tool_calls }.
\* role is an Option: it has no default, so a message without the field
\* does not deserialize.  content, reasoning_content and tool_calls have
\* defaults.
MkMessage(content, reasoning, tcs) ==
    [role |-> Some("assistant"), content |-> content,
     reasoning_content |-> reasoning, tool_calls |-> tcs]

\* the message as the JSON object without the field "role"
NoRole(m) == [m EXCEPT !.role = None]

\* StreamingCompletionChunk { output: StreamingOutput { choices }, usage }.
\* output is an Option: a JSON object without the required field "output"
\* does not deserialize.
MkChunk(output, usage) == [output |-> output, usage |-> usage]

NoChunk == MkChunk(None, None)

\* message.data: raw text that is not JSON, or the JSON object whose fields
\* are given by chunk, or the JSON array of the values of the fields of
\* chunk, [output, usage], with null for a value that is absent.
RawData(chars) == [json |-> FALSE, array |-> FALSE, raw |-> chars, chunk |-> NoChunk]
JsonData(c) == [json |-> TRUE, array |-> FALSE, raw |-> <<"{", "}">>, chunk |-> c]
ArrayData(c) == [json |-> TRUE, array |-> TRUE, raw |-> <<"[", "]">>, chunk |-> c]

\* What event_source.next().await yields
OpenEvent == [type |-> "Open", data |-> RawData(<<>>)]
MessageEvent(d) == [type |-> "Message", data |-> d]
TransportError == [type |-> "Error", data |-> RawData(<<>>)]
StreamEnded == [type |-> "StreamEnded", data |-> RawData(<<>>)]

\* What the stream yields: RawStreamingChoice::{Message, Reasoning, ToolCall,
\* FinalResponse} and Err(CompletionError::ResponseError).  No variant has a
\* field for the assistant message: StreamingCompletionResponse holds only
\* the usage.
NoJson == <<"null">>

MkOut(type, text, id, name, arguments, usage) ==
    [type |-> type, text |-> text, id |-> id, name |-> name,
     arguments |-> arguments, usage |-> usage, message |-> None]

MessageOut(text) == MkOut("Message", text, "", "", NoJson, UsageNew)
ReasoningOut(text) == MkOut("Reasoning", text, "", "", NoJson, UsageNew)
ToolCallOut(id, name, args) == MkOut("ToolCall", <<>>, id, name, args, UsageNew)
ErrorOut == MkOut("Error", <<>>, "", "", NoJson, UsageNew)
FinalResponseOut(usage) == MkOut("FinalResponse", <<>>, "", "", NoJson, usage)

\* ------------------------------------------------------------------------
\* Chunk parser
\* ------------------------------------------------------------------------
\* message.data.trim().is_empty()
IsBlank(data) == ~data.json /\ Trim(data.raw) = <<>>

\* serde_json::from_str::<StreamingCompletionChunk>(&message.data)
\* The derived Deserialize of a struct takes a JSON object and also a JSON
\* array of its fields in order.  Either way output must be there, and the
\* message of every choice, not of the first only, must have its role.
ParseChunk(data) ==
    IF /\ data.json
       /\ data.chunk.output # None
       /\ \A k \in 1..Len(data.chunk.output[1]) :
             data.chunk.output[1][k].role # None
    THEN Some(data.chunk) ELSE None

\* ------------------------------------------------------------------------
\* Reasoning channel
\* ------------------------------------------------------------------------
ReasoningStep(acc, reasoning) ==
    IF ByteLen(reasoning) >= ByteLen(acc)
    THEN [acc |-> reasoning,
          inc |-> IF StartsWith(reasoning, acc)
                  THEN SliceFromByte(reasoning, ByteLen(acc)) ELSE reasoning]
    ELSE [acc |-> acc \o reasoning, inc |-> reasoning]

ReasoningYield(inc) == IF inc # <<>> THEN <<ReasoningOut(inc)>> ELSE <<>>

\* if let Some(reasoning) = &message.reasoning_content { if !reasoning.is_empty() ...
ProcessReasoning(acc, opt) ==
    IF opt # None /\ opt[1] # <<>>
    THEN LET r == ReasoningStep(acc, opt[1])
         IN  [acc |-> r.acc, events |-> ReasoningYield(r.inc)]
    ELSE [acc |-> acc, events |-> <<>>]

\* ------------------------------------------------------------------------
\* Text channel
\* ------------------------------------------------------------------------
\* Variant of TextStep that treats every value as an incremental fragment.
TextStepAppend(acc, content) == [acc |-> acc \o content, inc |-> content]

\* Variant of TextStep that forgets to cut the already accumulated prefix
\* off a cumulative snapshot.
TextStepNoSlice(acc, content) ==
    IF ByteLen(content) >= ByteLen(acc)
    THEN [acc |-> content, inc |-> content]
    ELSE [acc |-> acc \o content, inc |-> content]

\* Variant of TextStep that always replaces the accumulated value by the new
\* one.
TextStepReplace(acc, content) ==
    [acc |-> content,
     inc |-> IF StartsWith(content, acc)
             THEN SliceFromByte(content, ByteLen(acc)) ELSE content]

TextStep(acc, content) ==
    IF ByteLen(content) >= ByteLen(acc)
    THEN [acc |-> content,
          inc |-> IF StartsWith(content, acc)
                  THEN SliceFromByte(content, ByteLen(acc)) ELSE content]
    ELSE [acc |-> acc \o content, inc |-> content]

\* Variant of TextYield without the is_empty check.
TextYieldAlways(inc) == <<MessageOut(inc)>>

TextYield(inc) == IF inc # <<>> THEN <<MessageOut(inc)>> ELSE <<>>

\* if let Some(content) = &message.content { if !content.is_empty() ...
ProcessText(acc, opt) ==
    IF opt # None /\ opt[1] # <<>>
    THEN LET r == TextStep(acc, opt[1])
         IN  [acc |-> r.acc, events |-> TextYield(r.inc)]
    ELSE [acc |-> acc, events |-> <<>>]

\* ------------------------------------------------------------------------
\* Tool-call assembler: calls is HashMap<usize, (String, String, String)>
\* ------------------------------------------------------------------------
MkEntry(id, name, arguments) == [id |-> id, name |-> name, arguments |-> arguments]

\* calls.insert(k, v)
Insert(cs, k, v) ==
    [i \in (DOMAIN cs) \cup {k} |-> IF i = k THEN v ELSE cs[i]]

\* the map without key k
Remove(cs, k) == [i \in (DOMAIN cs) \ {k} |-> cs[i]]

\* format!("call_{}", tool_call.index)
CallId(index) == "call_" \o ToString(index)

\* function.name.as_ref().map(|s| !s.is_empty()).unwrap_or(false)
NameNonEmpty(tc) == tc.name # None /\ tc.name[1] # ""

\* Variant of Continuation that takes over the id and the name of the
\* fragment when it carries them.
ContinuationAdopt(cs, tc) ==
    LET existing == cs[tc.index]
        cumulative == StartsWith(tc.arguments, existing.arguments)
        incremental_args ==
            IF cumulative THEN SliceFromByte(tc.arguments, ByteLen(existing.arguments))
            ELSE tc.arguments
        combined ==
            IF cumulative THEN tc.arguments
            ELSE existing.arguments \o tc.arguments
        id == IF tc.id # None THEN tc.id[1] ELSE existing.id
        name == IF tc.name # None THEN tc.name[1] ELSE existing.name
    IN  [calls |-> Insert(cs, tc.index, MkEntry(id, name, combined)),
         events |-> IF incremental_args # <<>>
                    THEN <<MessageOut(incremental_args)>> ELSE <<>>]

\* Variant of Continuation that emits a cumulative fragment whole instead of
\* its part beyond the arguments already held.
ContinuationNoSlice(cs, tc) ==
    LET existing == cs[tc.index]
        combined ==
            IF StartsWith(tc.arguments, existing.arguments) THEN tc.arguments
            ELSE existing.arguments \o tc.arguments
    IN  [calls |-> Insert(cs, tc.index, MkEntry(existing.id, existing.name, combined)),
         events |-> <<MessageOut(tc.arguments)>>]

\* Variant of Continuation that stores the fragment's arguments in place of
\* the combined text.
ContinuationOverwrite(cs, tc) ==
    LET existing == cs[tc.index]
        incremental_args ==
            IF StartsWith(tc.arguments, existing.arguments)
            THEN SliceFromByte(tc.arguments, ByteLen(existing.arguments))
            ELSE tc.arguments
    IN  [calls |-> Insert(cs, tc.index,
                          MkEntry(existing.id, existing.name, tc.arguments)),
         events |-> IF incremental_args # <<>>
                    THEN <<MessageOut(incremental_args)>> ELSE <<>>]

\* the branch taken when function.arguments is non-empty and
\* calls.get(&tool_call.index) is Some((id, name, existing_args))
Continuation(cs, tc) ==
    LET existing == cs[tc.index]
        cumulative == StartsWith(tc.arguments, existing.arguments)
        incremental_args ==
            IF cumulative THEN SliceFromByte(tc.arguments, ByteLen(existing.arguments))
            ELSE tc.arguments
        combined ==
            IF cumulative THEN tc.arguments
            ELSE existing.arguments \o tc.arguments
    IN  [calls |-> Insert(cs, tc.index, MkEntry(existing.id, existing.name, combined)),
         events |-> IF incremental_args # <<>>
                    THEN <<MessageOut(incremental_args)>> ELSE <<>>]

\* Variant of Orphan that takes id and name as they are, without making up
\* "call_<index>" and "unknown" for absent ones.
OrphanNoSynthesis(cs, tc) ==
    LET id == IF tc.id # None THEN tc.id[1] ELSE ""
        name == IF tc.name # None THEN tc.name[1] ELSE ""
    IN  [calls |-> Insert(cs, tc.index, MkEntry(id, name, tc.arguments)),
         events |-> <<MessageOut(tc.arguments)>>]

\* the branch taken when function.arguments is non-empty and the index has
\* no entry in calls
Orphan(cs, tc) ==
    LET id == IF tc.id # None THEN tc.id[1] ELSE CallId(tc.index)
        name == IF tc.name # None THEN tc.name[1] ELSE "unknown"
    IN  [calls |-> Insert(cs, tc.index, MkEntry(id, name, tc.arguments)),
         events |-> IF tc.arguments # <<>>
                    THEN <<MessageOut(tc.arguments)>> ELSE <<>>]

\* Variant of SelfContained that takes empty arguments for the JSON null.
SelfContainedEmptyAsNull(cs, tc) ==
    LET arguments_json ==
            IF tc.arguments = <<>> THEN Some(NoJson) ELSE FromStr(tc.arguments)
    IN  [calls |-> cs,
         events |-> IF arguments_json = None THEN <<>>
                    ELSE <<ToolCallOut(tc.id[1], tc.name[1], arguments_json[1])>>]

\* the branch taken when function.arguments is empty, the name is not a
\* non-empty string and both id and name are Some
SelfContained(cs, tc) ==
    LET arguments_json == FromStr(tc.arguments) IN
    [calls |-> cs,
     events |-> IF arguments_json = None THEN <<>>
                ELSE <<ToolCallOut(tc.id[1], tc.name[1], arguments_json[1])>>]

\* Variant of ToolStep whose Start case keeps an accumulator that is already
\* there (entry().or_insert in place of insert).
ToolStepKeep(cs, tc) ==
    IF NameNonEmpty(tc) /\ tc.arguments = <<>>
    THEN [calls |-> IF tc.index \in DOMAIN cs THEN cs
                    ELSE Insert(cs, tc.index,
                                MkEntry(IF tc.id # None THEN tc.id[1] ELSE "",
                                        tc.name[1], <<>>)),
          events |-> <<>>]
    ELSE IF tc.arguments # <<>>
    THEN IF tc.index \in DOMAIN cs THEN Continuation(cs, tc) ELSE Orphan(cs, tc)
    ELSE IF tc.id # None /\ tc.name # None
    THEN SelfContained(cs, tc)
    ELSE [calls |-> cs, events |-> <<>>]

\* body of: for tool_call in &message.tool_calls
ToolStep(cs, tc) ==
    IF NameNonEmpty(tc) /\ tc.arguments = <<>>
    THEN [calls |-> Insert(cs, tc.index,
                           MkEntry(IF tc.id # None THEN tc.id[1] ELSE "",
                                   tc.name[1], <<>>)),
          events |-> <<>>]
    ELSE IF tc.arguments # <<>>
    THEN IF tc.index \in DOMAIN cs THEN Continuation(cs, tc) ELSE Orphan(cs, tc)
    ELSE IF tc.id # None /\ tc.name # None
    THEN SelfContained(cs, tc)
    ELSE [calls |-> cs, events |-> <<>>]

\* for tool_call in &message.tool_calls.  Every branch that yields does so
\* before it touches calls: at[i] is the map while the body is suspended on
\* events[i], calls is the map after the loop.
RECURSIVE ProcessToolCalls(_, _)
ProcessToolCalls(cs, tcs) ==
    IF tcs = <<>> THEN [calls |-> cs, events |-> <<>>, at |-> <<>>]
    ELSE LET r == ToolStep(cs, Head(tcs))
             rest == ProcessToolCalls(r.calls, Tail(tcs))
         IN  [calls |-> rest.calls,
              events |-> r.events \o rest.events,
              at |-> [i \in 1..Len(r.events) |-> cs] \o rest.at]

\* ------------------------------------------------------------------------
\* Usage: if let Some(usage) = data.usage { final_usage = usage.clone(); }
\* ------------------------------------------------------------------------
\* Variant of UpdateUsage that adds the chunk's usage to the running one.
UpdateUsageSum(usage, chunk) ==
    IF chunk.usage # None
    THEN MkUsage(usage.input_tokens + chunk.usage[1].input_tokens,
                 usage.output_tokens + chunk.usage[1].output_tokens,
                 usage.total_tokens + chunk.usage[1].total_tokens)
    ELSE usage

UpdateUsage(usage, chunk) ==
    IF chunk.usage # None THEN chunk.usage[1] ELSE usage

\* ------------------------------------------------------------------------
\* One parsed chunk: reasoning, then tool calls, then text of the first
\* choice; then usage.  The result holds the locals at the end of the arm,
\* the items the arm yields (events) and the locals while the body is
\* suspended on each of them (at): an accumulator of text or reasoning is
\* updated before its item is yielded, the usage after the last one.
\* ------------------------------------------------------------------------
\* the locals of the stream body
MkState(reasoning, cs, text, usage) ==
    [reasoning_response |-> reasoning, calls |-> cs, text_response |-> text,
     final_usage |-> usage]

\* Variant of ProcessChunk that handles the content before the reasoning and
\* the tool calls.
ProcessChunkTextFirst(st, chunk) ==
    LET choices == chunk.output[1] IN
    IF choices = <<>>
    THEN [reasoning_response |-> st.reasoning_response,
          calls |-> st.calls,
          text_response |-> st.text_response,
          final_usage |-> UpdateUsage(st.final_usage, chunk),
          events |-> <<>>,
          at |-> <<>>]
    ELSE LET m == choices[1]
             r == ProcessReasoning(st.reasoning_response, m.reasoning_content)
             t == ProcessToolCalls(st.calls, m.tool_calls)
             x == ProcessText(st.text_response, m.content)
         IN  [reasoning_response |-> r.acc,
              calls |-> t.calls,
              text_response |-> x.acc,
              final_usage |-> UpdateUsage(st.final_usage, chunk),
              events |-> x.events \o r.events \o t.events,
              at |-> [i \in 1..Len(x.events) |->
                        MkState(st.reasoning_response, st.calls, x.acc, st.final_usage)]
                     \o [i \in 1..Len(r.events) |->
                        MkState(r.acc, st.calls, x.acc, st.final_usage)]
                     \o [i \in 1..Len(t.events) |->
                        MkState(r.acc, t.at[i], x.acc, st.final_usage)]]

\* Variant of ProcessChunk in which the text channel is reconciled against
\* the reasoning accumulator (one accumulator used for both channels).
ProcessChunkCoupled(st, chunk) ==
    LET choices == chunk.output[1] IN
    IF choices = <<>>
    THEN [reasoning_response |-> st.reasoning_response,
          calls |-> st.calls,
          text_response |-> st.text_response,
          final_usage |-> UpdateUsage(st.final_usage, chunk),
          events |-> <<>>,
          at |-> <<>>]
    ELSE LET m == choices[1]
             r == ProcessReasoning(st.reasoning_response, m.reasoning_content)
             t == ProcessToolCalls(st.calls, m.tool_calls)
             x == ProcessText(r.acc, m.content)
         IN  [reasoning_response |-> x.acc,
              calls |-> t.calls,
              text_response |-> x.acc,
              final_usage |-> UpdateUsage(st.final_usage, chunk),
              events |-> r.events \o t.events \o x.events,
              at |-> [i \in 1..Len(r.events) |->
                        MkState(r.acc, st.calls, r.acc, st.final_usage)]
                     \o [i \in 1..Len(t.events) |->
                        MkState(r.acc, t.at[i], r.acc, st.final_usage)]
                     \o [i \in 1..Len(x.events) |->
                        MkState(x.acc, t.calls, x.acc, st.final_usage)]]

\* Variant of ProcessChunk that takes the last choice of the chunk
\* (choices.last() in place of choices.first()).
ProcessChunkLast(st, chunk) ==
    LET choices == chunk.output[1] IN
    IF choices = <<>>
    THEN [reasoning_response |-> st.reasoning_response,
          calls |-> st.calls,
          text_response |-> st.text_response,
          final_usage |-> UpdateUsage(st.final_usage, chunk),
          events |-> <<>>,
          at |-> <<>>]
    ELSE LET m == choices[Len(choices)]
             r == ProcessReasoning(st.reasoning_response, m.reasoning_content)
             t == ProcessToolCalls(st.calls, m.tool_calls)
             x == ProcessText(st.text_response, m.content)
         IN  [reasoning_response |-> r.acc,
              calls |-> t.calls,
              text_response |-> x.acc,
              final_usage |-> UpdateUsage(st.final_usage, chunk),
              events |-> r.events \o t.events \o x.events,
              at |-> [i \in 1..Len(r.events) |->
                        MkState(r.acc, st.calls, st.text_response, st.final_usage)]
                     \o [i \in 1..Len(t.events) |->
                        MkState(r.acc, t.at[i], st.text_response, st.final_usage)]
                     \o [i \in 1..Len(x.events) |->
                        MkState(r.acc, t.calls, x.acc, st.final_usage)]]

ProcessChunk(st, chunk) ==
    LET choices == chunk.output[1] IN
    IF choices = <<>>
    THEN [reasoning_response |-> st.reasoning_response,
          calls |-> st.calls,
          text_response |-> st.text_response,
          final_usage |-> UpdateUsage(st.final_usage, chunk),
          events |-> <<>>,
          at |-> <<>>]
    ELSE LET m == choices[1]
             r == ProcessReasoning(st.reasoning_response, m.reasoning_content)
             t == ProcessToolCalls(st.calls, m.tool_calls)
             x == ProcessText(st.text_response, m.content)
         IN  [reasoning_response |-> r.acc,
              calls |-> t.calls,
              text_response |-> x.acc,
              final_usage |-> UpdateUsage(st.final_usage, chunk),
              events |-> r.events \o t.events \o x.events,
              at |-> [i \in 1..Len(r.events) |->
                        MkState(r.acc, st.calls, st.text_response, st.final_usage)]
                     \o [i \in 1..Len(t.events) |->
                        MkState(r.acc, t.at[i], st.text_response, st.final_usage)]
                     \o [i \in 1..Len(x.events) |->
                        MkState(r.acc, t.calls, x.acc, st.final_usage)]]

\* ------------------------------------------------------------------------
\* Non-streaming response: TryFrom<CompletionResponse>
\* ------------------------------------------------------------------------
\* enum Message { System, User, Assistant, ToolResult }, tagged by role; the
\* fields a variant does not have are left empty
MkRoleMessage(role, content, reasoning, tcs) ==
    [role |-> role, content |-> content, reasoning_content |-> reasoning,
     tool_calls |-> tcs]

\* Choice { finish_reason, message }
MkChoice(msg) == [finish_reason |-> "stop", message |-> msg]

\* CompletionResponse { request_id, output: Output { choices }, usage }
MkResponse(choices, usage) == [choices |-> choices, usage |-> usage]

\* Result<completion::CompletionResponse<..>, CompletionError>
ConvertOk(choice, usage, raw) ==
    [ok |-> TRUE, error |-> "", detail |-> "", choice |-> choice,
     usage |-> usage, raw_response |-> Some(raw)]

\* Err(CompletionError::ResponseError(detail))
ResponseError(detail) ==
    [ok |-> FALSE, error |-> "ResponseError", detail |-> detail, choice |-> <<>>,
     usage |-> UsageNew, raw_response |-> None]

\* completion::AssistantContent::{Reasoning, Text, ToolCall}
ReasoningContent(text) ==
    [type |-> "Reasoning", text |-> text, id |-> "", name |-> "", arguments |-> NoJson]
TextContent(text) ==
    [type |-> "Text", text |-> text, id |-> "", name |-> "", arguments |-> NoJson]
ToolCallContent(call) ==
    [type |-> "ToolCall", text |-> <<>>, id |-> call.id, name |-> call.name,
     arguments |-> call.arguments]

\* OneOrMany::many(items): an empty list is refused
OneOrManyMany(items) == IF items = <<>> THEN None ELSE Some(items)

\* the list of contents built from an assistant message
AssistantContents(msg) ==
    (IF msg.reasoning_content # None /\ msg.reasoning_content[1] # <<>>
     THEN <<ReasoningContent(msg.reasoning_content[1])>> ELSE <<>>)
    \o (IF Trim(msg.content) # <<>> THEN <<TextContent(msg.content)>> ELSE <<>>)
    \o [k \in 1..Len(msg.tool_calls) |-> ToolCallContent(msg.tool_calls[k])]

\* Variant of TryFromResponse that tests the content with is_empty() alone,
\* without trim().
TryFromResponseNoTrim(resp) ==
    IF resp.choices = <<>>
    THEN ResponseError("Response contained no choices")
    ELSE LET msg == resp.choices[1].message IN
         IF msg.role # "assistant"
         THEN ResponseError("Response did not contain assistant message")
         ELSE LET result ==
                    (IF msg.reasoning_content # None /\ msg.reasoning_content[1] # <<>>
                     THEN <<ReasoningContent(msg.reasoning_content[1])>> ELSE <<>>)
                    \o (IF msg.content # <<>> THEN <<TextContent(msg.content)>>
                        ELSE <<>>)
                    \o [k \in 1..Len(msg.tool_calls) |->
                           ToolCallContent(msg.tool_calls[k])]
                  many == OneOrManyMany(result)
              IN  IF many = None
                  THEN ResponseError("Response contained no content")
                  ELSE ConvertOk(many[1], resp.usage, resp)

\* fn try_from(response: CompletionResponse) -> Result<Self, Self::Error>
TryFromResponse(resp) ==
    IF resp.choices = <<>>
    THEN ResponseError("Response contained no choices")
    ELSE LET msg == resp.choices[1].message IN
         IF msg.role # "assistant"
         THEN ResponseError("Response did not contain assistant message")
         ELSE LET many == OneOrManyMany(AssistantContents(msg)) IN
              IF many = None
              THEN ResponseError("Response contained no content")
              ELSE ConvertOk(many[1], resp.usage, resp)

\* ------------------------------------------------------------------------
\* State of one streaming call
\* ------------------------------------------------------------------------
VARIABLES
    source,             \* events event_source.next() has yielded so far
    closed,             \* event_source.close() has been called
    pc,                 \* position of the stream! body
    final_usage,
    text_response,
    reasoning_response,
    calls,
    tool_calls,         \* Vec<ToolCall> built while flushing calls
    message,            \* Option<Message::Assistant> recorded to the span
    pending,            \* items the arm of the current chunk has yet to yield
    resume,             \* the locals at each suspension of that arm still to
                        \* come, the last of them the await of the next event
    yielded,            \* the body is suspended at a yield, whose item the
                        \* consumer's poll has returned
    out,                \* items the polls of the consumer have returned, in order
    other,              \* the state of a second streaming call, while it is not running
    response,           \* a non-streaming CompletionResponse handed to try_from
    converted,          \* the Result of try_from, once it has run
    task_id,            \* the argument of the call of get_task_status polled last
    task_result,        \* what that poll returned: None while the call is
                        \* suspended, its Result once it has returned
    task_response,      \* the same for the calls of submit_point_task,
                        \* submit_line_task, submit_scheil_task and list_tasks
    flights,            \* the calls suspended in make_request, each at the
                        \* await of send() or of response.text()
    requests            \* the requests make_request has sent to the remote service

vars == <<source, closed, pc, final_usage, text_response, reasoning_response,
          calls, tool_calls, message, pending, resume, yielded, out, other,
          response, converted, task_id, task_result, task_response, flights,
          requests>>

\* the variables of the streaming call, of the conversion of a non-streaming
\* response, and of the task client
streaming == <<source, closed, pc, final_usage, text_response, reasoning_response,
               calls, tool_calls, message, pending, resume, yielded, out, other>>

conversion == <<response, converted>>

mesh == <<task_id, task_result, task_response, flights, requests>>

decoder == <<final_usage, text_response, reasoning_response, calls>>

\* the state of a streaming call that has not started
Fresh ==
    [source |-> <<>>, closed |-> FALSE, pc |-> "loop", final_usage |-> UsageNew,
     text_response |-> <<>>, reasoning_response |-> <<>>, calls |-> <<>>,
     tool_calls |-> <<>>, message |-> None, pending |-> <<>>, resume |-> <<>>,
     yielded |-> FALSE, out |-> <<>>]

\* the stream body before its first poll
StreamInit ==
    /\ other = Fresh
    /\ source = <<>>
    /\ closed = FALSE
    /\ pc = "loop"
    /\ final_usage = UsageNew
    /\ text_response = <<>>
    /\ reasoning_response = <<>>
    /\ calls = <<>>
    /\ tool_calls = <<>>
    /\ message = None
    /\ pending = <<>>
    /\ resume = <<>>
    /\ yielded = FALSE
    /\ out = <<>>

\* no conversion and no call of the task client has been made
Init ==
    /\ StreamInit
    /\ response = MkResponse(<<>>, UsageNew)
    /\ converted = None
    /\ task_id = 0
    /\ task_result = None
    /\ task_response = None
    /\ flights = <<>>
    /\ requests = <<>>

\* Variant of Awaiting for a read loop that asks for the next event while
\* the arm of the current one has not run to its end.
AwaitingEager == pc = "loop"

\* Variant of Awaiting for a read loop that runs as a detached task and goes
\* on after the consumer has dropped the stream.
AwaitingDetached == pc \in {"loop", "dropped"} /\ resume = <<>>

\* The body is at event_source.next().await: it runs only when the consumer
\* polls it, and every arm runs to its end before the loop asks for the next
\* event.
Awaiting == pc = "loop" /\ resume = <<>>

\* Variant of OnOpen that takes an Open for the start of a new response and
\* clears the accumulated text and reasoning.
OnOpenReset ==
    /\ Awaiting
    /\ Len(source) < MaxEvents
    /\ source' = Append(source, OpenEvent)
    /\ text_response' = <<>>
    /\ reasoning_response' = <<>>
    /\ UNCHANGED <<conversion, mesh, other, resume, yielded, closed, pc, final_usage,
                   calls, tool_calls, message, pending, out>>

\* Ok(Event::Open) => continue
OnOpen ==
    /\ Awaiting
    /\ Len(source) < MaxEvents
    /\ source' = Append(source, OpenEvent)
    /\ UNCHANGED <<conversion, mesh, other, resume, yielded, closed, pc, decoder,
                   tool_calls, message, pending, out>>

\* The poll that reads a chunk runs its arm as far as the first yield and
\* returns that item to the consumer; the body stays there until it is
\* polled again.  An arm that yields nothing runs to the next await.  r is
\* the result of ProcessChunk; pending and resume hold what the arm has yet
\* to yield and the locals at each suspension to come, the last of them the
\* await.
RunArm(r) ==
    LET end == MkState(r.reasoning_response, r.calls, r.text_response,
                       r.final_usage)
        first == IF r.events = <<>> THEN end ELSE r.at[1]
    IN  /\ reasoning_response' = first.reasoning_response
        /\ calls' = first.calls
        /\ text_response' = first.text_response
        /\ final_usage' = first.final_usage
        /\ IF r.events = <<>>
           THEN /\ out' = out
                /\ pending' = <<>>
                /\ resume' = <<>>
                /\ yielded' = FALSE
           ELSE /\ out' = Append(out, Head(r.events))
                /\ pending' = Tail(r.events)
                /\ resume' = Tail(r.at) \o <<end>>
                /\ yielded' = TRUE

\* Variant of OnMessage without the skip of blank payloads, in which the
\* payload that is not a chunk ends the stream with an Err.
OnMessageBlankError(datas) ==
    /\ Awaiting
    /\ Len(source) < MaxEvents
    /\ \E data \in datas :
        /\ source' = Append(source, MessageEvent(data))
        /\ IF ParseChunk(data) = None
           THEN /\ out' = Append(out, ErrorOut)
                /\ yielded' = TRUE
                /\ pc' = "close"
                /\ UNCHANGED <<decoder, pending, resume>>
           ELSE /\ RunArm(ProcessChunk(MkState(reasoning_response, calls,
                                                  text_response, final_usage),
                                          ParseChunk(data)[1]))
                /\ pc' = pc
    /\ UNCHANGED <<conversion, mesh, other, closed, tool_calls, message>>

\* Variant of OnMessage that treats a payload that does not deserialize as
\* a failure of the stream: it yields an Err and leaves the read loop.
OnMessageStrict(datas) ==
    /\ Awaiting
    /\ Len(source) < MaxEvents
    /\ \E data \in datas :
        /\ source' = Append(source, MessageEvent(data))
        /\ IF IsBlank(data)
           THEN UNCHANGED <<decoder, pending, resume, yielded, out, pc>>
           ELSE IF ParseChunk(data) = None
           THEN /\ out' = Append(out, ErrorOut)
                /\ yielded' = TRUE
                /\ pc' = "close"
                /\ UNCHANGED <<decoder, pending, resume>>
           ELSE /\ RunArm(ProcessChunk(MkState(reasoning_response, calls,
                                                  text_response, final_usage),
                                          ParseChunk(data)[1]))
                /\ pc' = pc
    /\ UNCHANGED <<conversion, mesh, other, closed, tool_calls, message>>

\* Ok(Event::Message(message)) => ...
OnMessage(datas) ==
    /\ Awaiting
    /\ Len(source) < MaxEvents
    /\ \E data \in datas :
        /\ source' = Append(source, MessageEvent(data))
        /\ IF IsBlank(data) \/ ParseChunk(data) = None
           THEN UNCHANGED <<decoder, pending, resume, yielded, out>>
           ELSE RunArm(ProcessChunk(MkState(reasoning_response, calls, text_response,
                                               final_usage),
                                       ParseChunk(data)[1]))
    /\ UNCHANGED <<conversion, mesh, other, closed, pc, tool_calls, message>>

\* Variant of OnStreamEnded without the StreamEnded arm: the sentinel falls
\* into the generic Err(err) arm.
OnStreamEndedAsError ==
    /\ Awaiting
    /\ source' = Append(source, StreamEnded)
    /\ out' = Append(out, ErrorOut)
    /\ yielded' = TRUE
    /\ pc' = "close"
    /\ UNCHANGED <<conversion, mesh, other, resume, closed, decoder, tool_calls,
                   message, pending>>

\* Err(http_client::Error::StreamEnded) => break.  The body goes on within
\* the same poll.
OnStreamEnded ==
    /\ Awaiting
    /\ source' = Append(source, StreamEnded)
    /\ pc' = "close"
    /\ UNCHANGED <<conversion, mesh, other, resume, yielded, closed, decoder,
                   tool_calls, message, pending, out>>

\* Variant of OnError without the break: the Err is yielded and the read
\* loop goes on at the next poll.
OnErrorContinue ==
    /\ Awaiting
    /\ Len(source) < MaxEvents
    /\ source' = Append(source, TransportError)
    /\ out' = Append(out, ErrorOut)
    /\ yielded' = TRUE
    /\ resume' = <<MkState(reasoning_response, calls, text_response, final_usage)>>
    /\ UNCHANGED <<conversion, mesh, other, closed, pc, decoder, tool_calls, message,
                   pending>>

\* Err(err) => { yield Err(CompletionError::ResponseError(..)); break }
\* The poll returns the Err; the body is suspended at the yield, with the
\* break and what follows the loop still to run.
OnError ==
    /\ Awaiting
    /\ source' = Append(source, TransportError)
    /\ out' = Append(out, ErrorOut)
    /\ yielded' = TRUE
    /\ pc' = "close"
    /\ UNCHANGED <<conversion, mesh, other, resume, closed, decoder, tool_calls,
                   message, pending>>

\* event_source.next().await is None: the while-let loop ends
OnExhausted ==
    /\ Awaiting
    /\ pc' = "close"
    /\ UNCHANGED <<conversion, mesh, other, resume, yielded, source, closed, decoder,
                   tool_calls, message, pending, out>>

\* Variant of Close without the call of event_source.close().
CloseSkipped ==
    /\ pc = "close"
    /\ pc' = "flush"
    /\ yielded' = FALSE
    /\ UNCHANGED <<conversion, mesh, other, resume, source, closed, decoder, tool_calls,
                   message, pending, out>>

\* event_source.close(); let mut tool_calls = Vec::new();
\* After the Err arm this is where the next poll takes the body up.
Close ==
    /\ pc = "close"
    /\ closed' = TRUE
    /\ pc' = "flush"
    /\ yielded' = FALSE
    /\ UNCHANGED <<conversion, mesh, other, resume, source, decoder, tool_calls,
                   message, pending, out>>

\* Variant of FlushOne that reports arguments that do not parse as a failure
\* of the stream.
FlushOneStrict(index) ==
    LET e == calls[index]
        arguments_json == FromStr(e.arguments)
    IN  /\ calls' = Remove(calls, index)
        /\ yielded' = TRUE
        /\ IF arguments_json = None
           THEN /\ out' = Append(out, ErrorOut)
                /\ UNCHANGED tool_calls
           ELSE /\ tool_calls' = Append(tool_calls,
                        [id |-> e.id, index |-> index, name |-> e.name,
                         arguments |-> arguments_json[1]])
                /\ out' = Append(out, ToolCallOut(e.id, e.name, arguments_json[1]))

\* Variant of FlushOne that yields the ToolCall of an accumulator twice.
FlushOneDouble(index) ==
    LET e == calls[index]
        arguments_json == FromStr(e.arguments)
    IN  /\ calls' = Remove(calls, index)
        /\ IF arguments_json = None
           THEN /\ yielded' = FALSE
                /\ UNCHANGED <<tool_calls, out>>
           ELSE /\ tool_calls' = Append(tool_calls,
                        [id |-> e.id, index |-> index, name |-> e.name,
                         arguments |-> arguments_json[1]])
                /\ yielded' = TRUE
                /\ out' = out \o <<ToolCallOut(e.id, e.name, arguments_json[1]),
                                   ToolCallOut(e.id, e.name, arguments_json[1])>>

\* One iteration of: for (index, (id, name, arguments)) in calls.
\* The iteration order of a HashMap is unspecified: any resident key can
\* come next.  An iteration whose arguments parse ends at the yield of the
\* ToolCall, which the poll returns; one whose arguments do not parse goes
\* on to the next iteration within the same poll.
FlushOne(index) ==
    LET e == calls[index]
        arguments_json == FromStr(e.arguments)
    IN  /\ calls' = Remove(calls, index)
        /\ IF arguments_json = None
           THEN /\ yielded' = FALSE
                /\ UNCHANGED <<tool_calls, out>>
           ELSE /\ tool_calls' = Append(tool_calls,
                        [id |-> e.id, index |-> index, name |-> e.name,
                         arguments |-> arguments_json[1]])
                /\ yielded' = TRUE
                /\ out' = Append(out, ToolCallOut(e.id, e.name, arguments_json[1]))

Flush ==
    /\ pc = "flush"
    /\ DOMAIN calls # {}
    /\ \E index \in DOMAIN calls : FlushOne(index)
    /\ UNCHANGED <<conversion, mesh, other, resume, source, closed, pc, final_usage,
                   text_response, reasoning_response, message, pending>>

\* Message::Assistant { content, reasoning_content, tool_calls }
AssistantMessage ==
    [content |-> text_response,
     reasoning_content |-> IF reasoning_response = <<>> THEN None
                           ELSE Some(reasoning_response),
     tool_calls |-> tool_calls]

\* Variant of Final that ends the stream without yielding the FinalResponse.
FinalSilent ==
    /\ pc = "flush"
    /\ DOMAIN calls = {}
    /\ message' = Some(AssistantMessage)
    /\ pc' = "done"
    /\ yielded' = FALSE
    /\ UNCHANGED <<conversion, mesh, other, resume, source, closed, decoder, tool_calls,
                   pending, out>>

\* let message = ...; span.record(..); yield Ok(FinalResponse(..))
\* The poll returns the FinalResponse; the body is suspended at its last
\* yield and has nothing left to do but return.
Final ==
    /\ pc = "flush"
    /\ DOMAIN calls = {}
    /\ message' = Some(AssistantMessage)
    /\ out' = Append(out, FinalResponseOut(final_usage))
    /\ pc' = "done"
    /\ yielded' = TRUE
    /\ UNCHANGED <<conversion, mesh, other, resume, source, closed, decoder, tool_calls,
                   pending>>

\* The body goes on from a yield inside the arm of a chunk to the next
\* suspension of that arm: the locals become those of that suspension.
Resume ==
    /\ reasoning_response' = Head(resume).reasoning_response
    /\ calls' = Head(resume).calls
    /\ text_response' = Head(resume).text_response
    /\ final_usage' = Head(resume).final_usage
    /\ resume' = Tail(resume)

\* Variant of Yield that hands over the last item of the arm first.
YieldNewest ==
    /\ pc = "loop"
    /\ resume # <<>>
    /\ Resume
    /\ IF pending = <<>>
       THEN /\ yielded' = FALSE
            /\ UNCHANGED <<out, pending>>
       ELSE /\ out' = Append(out, pending[Len(pending)])
            /\ pending' = SubSeq(pending, 1, Len(pending) - 1)
            /\ yielded' = TRUE
    /\ UNCHANGED <<conversion, mesh, other, source, closed, pc, tool_calls, message>>

\* The consumer polls the stream while the body is suspended at a yield of
\* a chunk's arm: the body runs to the next yield of the arm, whose item the
\* poll returns, or to the end of the arm and the await of the next event.
Yield ==
    /\ pc = "loop"
    /\ resume # <<>>
    /\ Resume
    /\ IF pending = <<>>
       THEN /\ yielded' = FALSE
            /\ UNCHANGED <<out, pending>>
       ELSE /\ out' = Append(out, Head(pending))
            /\ pending' = Tail(pending)
            /\ yielded' = TRUE
    /\ UNCHANGED <<conversion, mesh, other, source, closed, pc, tool_calls, message>>

\* The body is suspended: at the await of the Event Source or at a yield.
\* Between two suspensions it runs inside one poll of the consumer.
Suspended == Awaiting \/ yielded

\* The consumer drops the stream.  It can do so only while the body is
\* suspended; the items the polls have returned are the consumer's.  The
\* stream owns the event source and every local of its body: they go with
\* it, and the rest of the arm and of the body is never run.  In
\* particular event_source.close(), which the body calls after the read
\* loop, is not called by the drop.
Drop ==
    /\ Suspended
    /\ pc' = "dropped"
    /\ final_usage' = UsageNew
    /\ text_response' = <<>>
    /\ reasoning_response' = <<>>
    /\ calls' = <<>>
    /\ tool_calls' = <<>>
    /\ pending' = <<>>
    /\ resume' = <<>>
    /\ yielded' = FALSE
    /\ UNCHANGED <<conversion, mesh, other, source, closed, message, out>>

\* ------------------------------------------------------------------------
\* Inputs
\* ------------------------------------------------------------------------
Chars == {"a", "b"}
Values == StringsUpTo(Chars, MaxStr)

\* arguments texts of tool-call fragments: complete JSON values, openings
\* and closings of them, and cumulative re-sends
ArgTexts ==
    {<<>>, <<"1">>, <<"1", "1">>, <<"[">>, <<"[", "1">>, <<"[", "]">>,
     <<"1", "]">>, <<"]">>}

\* RecursionLimit arrays, one inside the other
DeepArray ==
    [i \in 1..(2 * RecursionLimit) |-> IF i <= RecursionLimit THEN "[" ELSE "]"]

\* a number that leaves more digits out of its significand than there are
\* powers of ten
LongNumber == [i \in 1..(MaxExp10 + 21) |-> "9"]

\* a number beyond u64
FloatNumber == U64Max \o <<"0">>

Usage1 == MkUsage(1, 1, 2)
Usage2 == MkUsage(5, 3, 8)

\* a chunk with one choice
Chunk1(content, reasoning, tcs, usage) ==
    MkChunk(Some(<<MkMessage(content, reasoning, tcs)>>), usage)

\* payloads that are skipped: blank ones and ones that do not deserialize
Skipped ==
    {RawData(<<>>), RawData(<<" ", "U+3000">>), RawData(<<"n", "o">>),
     JsonData(NoChunk)}

\* tool-call fragments
Start(index, id, name) == MkToolCall(index, id, Some(name), <<>>)
ArgsOnly(index, text) == MkToolCall(index, None, None, text)

\* the value with its two characters exchanged
Mirror(v) == [i \in 1..Len(v) |-> IF v[i] = "a" THEN "b" ELSE "a"]

\* chunks for the two channels: every value as content with its mirror image
\* as reasoning_content, chunks that carry one channel or none, one whose
\* value is a single character of two bytes, and one that also opens a tool
\* call
ChannelChunks ==
    {Chunk1(Some(v), Some(Mirror(v)), <<>>, None) : v \in Values \ {<<>>}}
    \cup {Chunk1(Some(<<"a">>), None, <<>>, None),
          Chunk1(Some(<<"U+00E9">>), Some(<<"U+00E9">>), <<>>, None),
          Chunk1(None, Some(<<"a">>), <<>>, None),
          Chunk1(Some(<<>>), Some(<<>>), <<>>, None),
          Chunk1(None, None, <<>>, None),
          Chunk1(Some(<<"b">>), None, <<Start(0, Some("c0"), "f")>>, None)}

ChannelDatas == Skipped \cup {JsonData(c) : c \in ChannelChunks}

Fragments ==
    {Start(0, None, "f"), Start(0, Some("c0"), "f"), Start(1, Some("c1"), "g")}
    \cup {ArgsOnly(0, t) : t \in ArgTexts \ {<<>>}}
    \cup {ArgsOnly(1, <<"1">>),
          MkToolCall(0, Some("c0"), Some("f"), <<"1">>),
          MkToolCall(1, Some("c1"), Some("g"), <<"[", "]">>),
          MkToolCall(0, None, None, <<>>),
          MkToolCall(0, Some("c0"), Some(""), <<>>)}

\* chunks that carry tool-call fragments only
ToolChunks ==
    {Chunk1(None, None, <<f>>, None) : f \in Fragments}
    \cup {Chunk1(None, None, <<Start(0, Some("c0"), "f"), ArgsOnly(0, <<"1">>)>>, None)}

ToolDatas == Skipped \cup {JsonData(c) : c \in ToolChunks}

\* chunks of every kind
MixedChunks ==
    {Chunk1(Some(<<"a">>), None, <<>>, None),
     Chunk1(Some(<<"a", "b">>), None, <<>>, Some(Usage1)),
     Chunk1(Some(<<>>), Some(<<"a">>), <<>>, None),
     Chunk1(Some(<<"b">>), Some(<<"a">>), <<ArgsOnly(0, <<"1">>)>>, Some(Usage2)),
     Chunk1(None, None, <<Start(0, Some("c0"), "f")>>, None),
     Chunk1(None, None, <<ArgsOnly(0, <<"1">>)>>, None),
     Chunk1(None, None, <<ArgsOnly(0, <<"[">>)>>, None),
     Chunk1(None, None, <<ArgsOnly(1, <<"1">>)>>, None),
     Chunk1(None, None, <<MkToolCall(1, Some("c1"), Some("g"), <<"[", "]">>)>>, None),
     MkChunk(Some(<<>>), Some(Usage1)),
     MkChunk(Some(<<>>), Some(Usage2)),
     MkChunk(Some(<<MkMessage(Some(<<"a">>), None, <<>>),
                    MkMessage(Some(<<"b">>), None, <<>>)>>), None)}

\* one chunk comes as a JSON array as well, and one has a second choice
\* whose message lacks its role
MixedDatas ==
    Skipped
    \cup {JsonData(c) : c \in MixedChunks}
    \cup {ArrayData(Chunk1(Some(<<"a">>), None, <<>>, Some(Usage1))),
          JsonData(MkChunk(Some(<<MkMessage(Some(<<"a">>), None, <<>>),
                                  NoRole(MkMessage(Some(<<"b">>), None, <<>>))>>),
                           None))}

\* ------------------------------------------------------------------------
\* Specifications: the same decoder, fed from different payload sets
\* ------------------------------------------------------------------------
Next ==
    \/ OnOpen
    \/ OnMessage(MixedDatas)
    \/ OnStreamEnded
    \/ OnError
    \/ OnExhausted
    \/ Close
    \/ Flush
    \/ Final
    \/ Yield

Spec == Init /\ [][Next]_vars

NextChan ==
    \/ OnOpen
    \/ OnMessage(ChannelDatas)
    \/ OnStreamEnded
    \/ OnError
    \/ OnExhausted
    \/ Close
    \/ Flush
    \/ Final
    \/ Yield

SpecChan == Init /\ [][NextChan]_vars

NextTool ==
    \/ OnOpen
    \/ OnMessage(ToolDatas)
    \/ OnStreamEnded
    \/ OnError
    \/ OnExhausted
    \/ Close
    \/ Flush
    \/ Final
    \/ Yield

SpecTool == Init /\ [][NextTool]_vars

\* the fragments of one call and the start of another; among the arguments
\* texts are JSON that the parser refuses and a number it reads as a double
LimitChunks ==
    {Chunk1(None, None, <<f>>, None) :
        f \in {Start(0, Some("c0"), "f"), Start(1, None, "g"),
               ArgsOnly(1, <<"1">>)}
              \cup {ArgsOnly(0, t) :
                       t \in {<<"1">>, <<"[">>, <<"1", "]">>, DeepArray,
                              LongNumber, FloatNumber}}}

LimitDatas == {JsonData(c) : c \in LimitChunks}

NextLimit ==
    \/ OnOpen
    \/ OnMessage(LimitDatas)
    \/ OnStreamEnded
    \/ OnError
    \/ OnExhausted
    \/ Close
    \/ Flush
    \/ Final
    \/ Yield

SpecLimit == Init /\ [][NextLimit]_vars

\* a few payloads of each kind, for the properties of whole behaviours
LiveDatas ==
    {RawData(<<"n", "o">>),
     JsonData(Chunk1(Some(<<"a">>), None, <<>>, Some(Usage1))),
     JsonData(Chunk1(None, None, <<ArgsOnly(0, <<"1">>)>>, None)),
     JsonData(Chunk1(None, None, <<ArgsOnly(1, <<"[">>)>>, None))}

NextLive ==
    \/ OnOpen
    \/ OnMessage(LiveDatas)
    \/ OnStreamEnded
    \/ OnError
    \/ OnExhausted
    \/ Close
    \/ Flush
    \/ Final
    \/ Yield

\* The consumer keeps polling: the stream body runs whenever it can, and
\* every yielded item is taken.  Nothing forces the Event Source to deliver
\* or to end.
SpecLive ==
    /\ Init
    /\ [][NextLive]_vars
    /\ WF_vars(Close)
    /\ WF_vars(Flush)
    /\ WF_vars(Final)
    /\ WF_vars(Yield)

NextCancel ==
    \/ OnOpen
    \/ OnMessage(LiveDatas)
    \/ OnStreamEnded
    \/ OnError
    \/ OnExhausted
    \/ Close
    \/ Flush
    \/ Final
    \/ Yield
    \/ Drop

\* the decoder with a consumer that may drop the stream at any time
SpecCancel == Init /\ [][NextCancel]_vars

\* Two streaming calls.  Each call of send_qwen_streaming_request builds its
\* own stream body, whose locals are the decoder state of that call.  The
\* variables of the module are the call that is running; `other` is the call
\* that is waiting.
Snapshot ==
    [source |-> source, closed |-> closed, pc |-> pc, final_usage |-> final_usage,
     text_response |-> text_response, reasoning_response |-> reasoning_response,
     calls |-> calls, tool_calls |-> tool_calls, message |-> message,
     pending |-> pending, resume |-> resume, yielded |-> yielded, out |-> out]

\* Variant of Switch in which the accumulator map is one map used by both
\* calls instead of a local of each stream body.
SwitchSharedCalls ==
    /\ Suspended
    /\ other' = [Snapshot EXCEPT !.calls = other.calls]
    /\ source' = other.source
    /\ closed' = other.closed
    /\ pc' = other.pc
    /\ final_usage' = other.final_usage
    /\ text_response' = other.text_response
    /\ reasoning_response' = other.reasoning_response
    /\ calls' = calls
    /\ tool_calls' = other.tool_calls
    /\ message' = other.message
    /\ pending' = other.pending
    /\ resume' = other.resume
    /\ yielded' = other.yielded
    /\ out' = other.out
    /\ UNCHANGED <<conversion, mesh>>

\* the executor leaves the running call at a suspension point and resumes
\* the waiting one; every local of a stream body stays with its call
Switch ==
    /\ Suspended
    /\ other' = Snapshot
    /\ source' = other.source
    /\ closed' = other.closed
    /\ pc' = other.pc
    /\ final_usage' = other.final_usage
    /\ text_response' = other.text_response
    /\ reasoning_response' = other.reasoning_response
    /\ calls' = other.calls
    /\ tool_calls' = other.tool_calls
    /\ message' = other.message
    /\ pending' = other.pending
    /\ resume' = other.resume
    /\ yielded' = other.yielded
    /\ out' = other.out
    /\ UNCHANGED <<conversion, mesh>>

\* two payloads that touch every part of the decoder state
PairDatas ==
    {JsonData(Chunk1(Some(<<"a">>), None, <<ArgsOnly(0, <<"1">>)>>, Some(Usage1))),
     JsonData(Chunk1(None, Some(<<"b">>), <<Start(0, Some("c0"), "f")>>,
                     Some(Usage2)))}

NextPair ==
    \/ OnOpen
    \/ OnMessage(PairDatas)
    \/ OnStreamEnded
    \/ OnError
    \/ OnExhausted
    \/ Close
    \/ Flush
    \/ Final
    \/ Yield
    \/ Switch

SpecPair == Init /\ [][NextPair]_vars

\* chunks that carry the same non-empty value as content and as the
\* arguments of a fragment for index 0, so that both reconcilers see the
\* same sequence of values
SameDatas ==
    {JsonData(Chunk1(Some(v), None, <<ArgsOnly(0, v)>>, None)) : v \in Values \ {<<>>}}

NextSame ==
    \/ OnOpen
    \/ OnMessage(SameDatas)
    \/ OnStreamEnded
    \/ OnError
    \/ OnExhausted
    \/ Close
    \/ Flush
    \/ Final
    \/ Yield

SpecSame == Init /\ [][NextSame]_vars

\* chunks with no, one, two and three choices; the choices of a chunk
\* differ in text, reasoning and tool calls
ChoiceMessages ==
    {MkMessage(Some(<<"a">>), None, <<>>),
     MkMessage(None, Some(<<"b">>), <<ArgsOnly(0, <<"1">>)>>),
     MkMessage(Some(<<"b">>), None, <<Start(1, Some("c1"), "g")>>)}

ChoiceChunks ==
    {MkChunk(Some(<<m1, m2>>), None) : m1, m2 \in ChoiceMessages}
    \cup {MkChunk(Some(<<m>>), Some(Usage1)) : m \in ChoiceMessages}
    \cup {MkChunk(Some(<<>>), Some(Usage2)),
          MkChunk(Some(<<MkMessage(None, None, <<>>),
                         MkMessage(Some(<<"a">>), Some(<<"a">>), <<>>),
                         MkMessage(Some(<<"b">>), None, <<ArgsOnly(1, <<"1">>)>>)>>),
                  Some(Usage2))}

ChoiceDatas == {JsonData(c) : c \in ChoiceChunks}

NextChoice ==
    \/ OnOpen
    \/ OnMessage(ChoiceDatas)
    \/ OnStreamEnded
    \/ OnError
    \/ OnExhausted
    \/ Close
    \/ Flush
    \/ Final
    \/ Yield

SpecChoice == Init /\ [][NextChoice]_vars

\* chunks that carry reasoning, several tool-call fragments and text together
OrderChunks ==
    {Chunk1(Some(<<"a">>), Some(<<"b">>),
            <<ArgsOnly(0, <<"1">>), ArgsOnly(1, <<"[">>)>>, None),
     Chunk1(Some(<<"b">>), Some(<<"a">>),
            <<ArgsOnly(1, <<"]">>), ArgsOnly(0, <<"1">>)>>, Some(Usage1)),
     Chunk1(Some(<<"a", "b">>), Some(<<"b", "a">>),
            <<Start(0, Some("c0"), "f"), ArgsOnly(0, <<"[">>),
              ArgsOnly(0, <<"[", "]">>)>>, None),
     Chunk1(Some(<<"b">>), None, <<ArgsOnly(1, <<"1">>)>>, None)}

OrderDatas == {JsonData(c) : c \in OrderChunks}

NextOrder ==
    \/ OnOpen
    \/ OnMessage(OrderDatas)
    \/ OnStreamEnded
    \/ OnError
    \/ OnExhausted
    \/ Close
    \/ Flush
    \/ Final
    \/ Yield

SpecOrder == Init /\ [][NextOrder]_vars

\* ------------------------------------------------------------------------
\* Conversion of a non-streaming response
\* ------------------------------------------------------------------------
\* try_from is applied to the response
TryFrom ==
    /\ converted = None
    /\ converted' = Some(TryFromResponse(response))
    /\ UNCHANGED <<streaming, mesh, response>>

\* contents of an assistant message: empty, whitespace only, and with text
Contents ==
    {<<>>, <<" ">>, <<" ", "\n">>, <<"\f", "U+00A0">>, <<"a">>, <<" ", "a">>,
     <<"U+3000", "a", "\f">>}

ResponseToolCall == [id |-> "c0", name |-> "f", arguments |-> <<"num", 1>>]

AssistantMessages ==
    {MkRoleMessage("assistant", c, r, tcs) :
        c \in Contents,
        r \in {None, Some(<<>>), Some(<<"b">>)},
        tcs \in {<<>>, <<ResponseToolCall>>}}

OtherMessages ==
    {MkRoleMessage(role, <<"a">>, None, <<>>) : role \in {"system", "user", "tool"}}

\* responses with no choice, one choice, and two choices
Responses ==
    LET first == AssistantMessages \cup OtherMessages
        second == {MkRoleMessage("assistant", <<"a">>, None, <<>>),
                   MkRoleMessage("user", <<"a">>, None, <<>>)}
    IN  {MkResponse(<<>>, Usage1)}
        \cup {MkResponse(<<MkChoice(m)>>, Usage1) : m \in first}
        \cup {MkResponse(<<MkChoice(m), MkChoice(n)>>, Usage2) :
                m \in first, n \in second}

InitConvert ==
    /\ StreamInit
    /\ response \in Responses
    /\ converted = None
    /\ task_id = 0
    /\ task_result = None
    /\ task_response = None
    /\ flights = <<>>
    /\ requests = <<>>

NextConvert == TryFrom

SpecConvert == InitConvert /\ [][NextConvert]_vars

\* ------------------------------------------------------------------------
\* Task client: CalphaMeshClient
\* ------------------------------------------------------------------------
\* Result<TaskStatusResponse, CalphaMeshError>
TaskOk(id) == [ok |-> TRUE, error |-> "", id |-> id, status |-> 200]
InvalidTaskId(id) == [ok |-> FALSE, error |-> "InvalidTaskId", id |-> id, status |-> 0]
HttpError(id) == [ok |-> FALSE, error |-> "HttpError", id |-> id, status |-> 0]
ApiError(id, status) == [ok |-> FALSE, error |-> "ApiError", id |-> id, status |-> status]
JsonError(id) == [ok |-> FALSE, error |-> "JsonError", id |-> id, status |-> 0]

\* what the remote service can answer to a request: the send fails, or a
\* status comes back, with a body that cannot be read, or with one that is
\* or is not the response the caller deserializes
Replies ==
    {[sent |-> FALSE, status |-> 0, read |-> FALSE, task |-> FALSE]}
    \cup {[sent |-> TRUE, status |-> st, read |-> rd, task |-> t] :
            st \in {200, 201, 404}, rd \in BOOLEAN, t \in BOOLEAN}

\* make_request, then serde_json::from_str of the response text
Outcome(id, reply) ==
    IF ~reply.sent THEN HttpError(id)
    ELSE IF ~reply.read THEN HttpError(id)
    ELSE IF reply.status \notin {200, 201} THEN ApiError(id, reply.status)
    ELSE IF ~reply.task THEN JsonError(id)
    ELSE TaskOk(id)

\* GetTaskApiKeyRequest { id } posted to /api/v1/get_task
GetTaskRequest(id) == [url |-> "/api/v1/get_task", id |-> id]

\* CreateTaskApiKeyRequest { db_key, title, description, task_type } posted
\* to /api/v1/create_task.  The title carries the clock and the description
\* the parameters of the task; neither decides whether or where the request
\* is sent.
CreateTaskRequest(db_key, task_type) ==
    [url |-> "/api/v1/create_task", db_key |-> db_key, task_type |-> task_type]

\* GetTasksApiKeyRequest { page, items_per_page } posted to /api/v1/get_tasks
GetTasksRequest(page, items_per_page) ==
    [url |-> "/api/v1/get_tasks", page |-> page, items_per_page |-> items_per_page]

\* Variant of InvalidId that lets the id 0 through (task_id < 0).
InvalidIdNegative(id) == id < 0

\* if task_id <= 0
InvalidId(id) == id <= 0

\* task ids: i32, at and around 0 and at both ends of the range
TaskIds == {-2147483647 - 1, -1, 0, 1, 2, 2147483647}

\* params.database
Databases == {"default"}

\* page and items_per_page: the defaults, and values no listing has
Pages == {<<1, 50>>, <<0, -1>>}

MaxRequests == 2

\* the calls that can be suspended at the same time
MaxFlights == 2

\* a call suspended in make_request: at the await of send(), or with the
\* status of the response at the await of response.text()
Flight(op, id, at, status) == [op |-> op, id |-> id, at |-> at, status |-> status]

Without(seq, i) == SubSeq(seq, 1, i - 1) \o SubSeq(seq, i + 1, Len(seq))

\* the Result of a call of submit_point_task, submit_line_task,
\* submit_scheil_task or list_tasks
ResponseOf(op, result) ==
    [op |-> op, ok |-> result.ok, error |-> result.error, status |-> result.status]

\* a poll of the call f leaves it suspended
Suspends(f) ==
    IF f.op = "get_task_status"
    THEN /\ task_id' = f.id
         /\ task_result' = None
         /\ UNCHANGED task_response
    ELSE /\ task_response' = None
         /\ UNCHANGED <<task_id, task_result>>

\* a poll of the call f returns result
Returns(f, result) ==
    IF f.op = "get_task_status"
    THEN /\ task_id' = f.id
         /\ task_result' = Some(result)
         /\ UNCHANGED task_response
    ELSE /\ task_response' = Some(ResponseOf(f.op, result))
         /\ UNCHANGED <<task_id, task_result>>

\* self.client.post(url)...body(body).send().await, polled for the first
\* time: the request goes out and the call is suspended
MakeRequest(op, id, request) ==
    /\ Len(requests) < MaxRequests
    /\ Len(flights) < MaxFlights
    /\ requests' = Append(requests, request)
    /\ flights' = Append(flights, Flight(op, id, "send", 0))
    /\ Suspends(Flight(op, id, "send", 0))

\* the first poll of a call of get_task_status
GetTaskStatus ==
    \E id \in TaskIds :
        /\ IF InvalidId(id)
           THEN /\ task_id' = id
                /\ task_result' = Some(InvalidTaskId(id))
                /\ UNCHANGED <<task_response, flights, requests>>
           ELSE MakeRequest("get_task_status", id, GetTaskRequest(id))
        /\ UNCHANGED <<streaming, conversion>>

\* the first poll of a call of submit_point_task
SubmitPointTask ==
    \E database \in Databases :
        /\ MakeRequest("submit_point_task", 0, CreateTaskRequest(database, "point"))
        /\ UNCHANGED <<streaming, conversion>>

\* the first poll of a call of submit_line_task
SubmitLineTask ==
    \E database \in Databases :
        /\ MakeRequest("submit_line_task", 0, CreateTaskRequest(database, "line"))
        /\ UNCHANGED <<streaming, conversion>>

\* the first poll of a call of submit_scheil_task
SubmitScheilTask ==
    \E database \in Databases :
        /\ MakeRequest("submit_scheil_task", 0, CreateTaskRequest(database, "scheil"))
        /\ UNCHANGED <<streaming, conversion>>

\* the first poll of a call of list_tasks
ListTasks ==
    \E p \in Pages :
        /\ MakeRequest("list_tasks", 0, GetTasksRequest(p[1], p[2]))
        /\ UNCHANGED <<streaming, conversion>>

\* a call suspended at send().await is polled when the send is over: it
\* returns HttpError when the send failed; otherwise it takes the status and
\* goes on to response.text().await, where it is suspended again unless the
\* text is there already
SendReturns ==
    \E i \in 1..Len(flights) :
        /\ flights[i].at = "send"
        /\ \E reply \in Replies, ready \in BOOLEAN :
            IF reply.sent /\ ~ready
            THEN /\ flights' = [flights EXCEPT ![i] =
                                    Flight(flights[i].op, flights[i].id, "text",
                                           reply.status)]
                 /\ Suspends(flights[i])
            ELSE /\ flights' = Without(flights, i)
                 /\ Returns(flights[i], Outcome(flights[i].id, reply))
        /\ UNCHANGED <<streaming, conversion, requests>>

\* a call suspended at response.text().await is polled when the text is
\* over: it returns what make_request and the deserialization give
TextReturns ==
    \E i \in 1..Len(flights) :
        /\ flights[i].at = "text"
        /\ \E reply \in Replies :
            /\ reply.sent
            /\ reply.status = flights[i].status
            /\ flights' = Without(flights, i)
            /\ Returns(flights[i], Outcome(flights[i].id, reply))
        /\ UNCHANGED <<streaming, conversion, requests>>

\* a call suspended in make_request is polled while the send, or the text,
\* is not over yet: it stays where it is
StillPending ==
    \E i \in 1..Len(flights) :
        /\ Suspends(flights[i])
        /\ UNCHANGED <<streaming, conversion, flights, requests>>

\* calls of the public functions of one client and of its clones, polled in
\* any order
NextTask ==
    \/ GetTaskStatus
    \/ SubmitPointTask
    \/ SubmitLineTask
    \/ SubmitScheilTask
    \/ ListTasks
    \/ StillPending
    \/ SendReturns
    \/ TextReturns

SpecTask == Init /\ [][NextTask]_vars

\* ------------------------------------------------------------------------
\* Vocabulary of the properties
\* ------------------------------------------------------------------------
\* the items the stream has yielded so far, followed by those the arm of
\* the chunk read last has yet to yield: the output the events read so far
\* give
Emitted == out \o pending

\* the locals of the stream body, as one record
Locals == MkState(reasoning_response, calls, text_response, final_usage)

\* the locals held in a result of ProcessChunk or of Replay
StateOf(r) ==
    MkState(r.reasoning_response, r.calls, r.text_response, r.final_usage)

\* the body is at the await of the read loop: the arm of every event read
\* so far has run to its end and its items have been taken
Settled == pc = "loop" /\ resume = <<>>

\* the run is over: the stream body has yielded its FinalResponse
Done == pc = "done"

SawError == \E i \in 1..Len(source) : source[i].type = "Error"

SawStreamEnded == \E i \in 1..Len(source) : source[i].type = "StreamEnded"

CountOf(seq, type) == Cardinality({i \in 1..Len(seq) : seq[i].type = type})

\* C1: a run whose source ends cleanly (StreamEnded or exhaustion, no
\* transport error) never produces an Error, produces no FinalResponse before
\* the read loop is left, and once it is over its output holds exactly one
\* FinalResponse, as its last element.
C1_CleanEndFinal ==
    ~SawError =>
        /\ CountOf(Emitted, "Error") = 0
        /\ pc # "done" => CountOf(Emitted, "FinalResponse") = 0
        /\ Done => /\ CountOf(out, "FinalResponse") = 1
                   /\ out[Len(out)].type = "FinalResponse"

C1_Witness ==
    /\ Done
    /\ SawStreamEnded
    /\ Len(out) >= 3
    /\ out[Len(out)].type = "FinalResponse"

\* C2: a run whose source yields a transport error ends with exactly one
\* Error as the last element of its output and holds no FinalResponse.
C2_ErrorTerminal ==
    (Done /\ SawError) =>
        /\ CountOf(out, "Error") = 1
        /\ out[Len(out)].type = "Error"
        /\ CountOf(out, "FinalResponse") = 0

\* the chunk a source event parses to, if it is a message that is processed
ParsedChunk(ev) ==
    IF ev.type = "Message" /\ ~IsBlank(ev.data) THEN ParseChunk(ev.data) ELSE None

\* the message of the first choice of that chunk, if any
FirstMessage(ev) ==
    LET c == ParsedChunk(ev) IN
    IF c # None /\ c[1].output[1] # <<>> THEN Some(c[1].output[1][1]) ELSE None

\* the non-empty values the source has delivered for a channel, in order
RECURSIVE ChannelValues(_, _)
ChannelValues(src, field) ==
    IF src = <<>> THEN <<>>
    ELSE LET m == FirstMessage(Head(src))
             rest == ChannelValues(Tail(src), field)
         IN  IF m # None /\ m[1][field] # None /\ m[1][field][1] # <<>>
             THEN <<m[1][field][1]>> \o rest ELSE rest

RECURSIVE Concat(_)
Concat(strs) == IF strs = <<>> THEN <<>> ELSE Head(strs) \o Concat(Tail(strs))

\* the concatenation of the texts of the emitted items of one type
RECURSIVE TextOf(_, _)
TextOf(items, type) ==
    IF items = <<>> THEN <<>>
    ELSE (IF Head(items).type = type THEN Head(items).text ELSE <<>>)
         \o TextOf(Tail(items), type)

\* the two channels: the chunk field and the type of the emitted delta
Channels == {<<"content", "Message">>, <<"reasoning_content", "Reasoning">>}

IsSnapshotChain(vals) ==
    \A i \in 2..Len(vals) : StartsWith(vals[i], vals[i - 1])

IsIncremental(vals) ==
    \A i \in 2..Len(vals) : ~StartsWith(vals[i], Concat(SubSeq(vals, 1, i - 1)))

\* C3: when the non-empty values delivered so far for a channel are
\* cumulative snapshots (each starts with the one before), the increments
\* emitted for the channel concatenate to the last value.
C3_CumulativeReconciliation ==
    \A ch \in Channels :
        LET vals == ChannelValues(source, ch[1]) IN
        (vals # <<>> /\ IsSnapshotChain(vals)) =>
            TextOf(Emitted, ch[2]) = vals[Len(vals)]

C3_Witness ==
    /\ Done
    /\ LET vals == ChannelValues(source, "content") IN
        /\ Len(vals) = 3
        /\ IsSnapshotChain(vals)
        /\ vals[1] # vals[2]
        /\ CountOf(out, "Message") = 2
        /\ TextOf(out, "Message") = vals[3]

\* C4: when no value delivered for a channel starts with the concatenation
\* of the values before it, the increments emitted for the channel
\* concatenate to the concatenation of all the values.
C4_IncrementalPassThrough ==
    \A ch \in Channels :
        LET vals == ChannelValues(source, ch[1]) IN
        IsIncremental(vals) => TextOf(Emitted, ch[2]) = Concat(vals)

\* C5: no emitted text delta, reasoning delta or tool-call-argument text
\* has empty content.
C5_NoEmptyEvents ==
    \A i \in 1..Len(Emitted) :
        Emitted[i].type \in {"Message", "Reasoning"} => Emitted[i].text # <<>>

\* a snapshot was re-sent unchanged and an empty content was delivered, and
\* deltas were emitted around them
C5_Witness ==
    /\ Done
    /\ \E i \in 2..Len(source) :
        /\ source[i] = source[i - 1]
        /\ ChannelValues(<<source[i]>>, "content") # <<>>
    /\ \E i \in 1..Len(source) :
        /\ FirstMessage(source[i]) # None
        /\ FirstMessage(source[i])[1].content = Some(<<>>)
    /\ CountOf(out, "Message") >= 1
    /\ CountOf(out, "Reasoning") >= 1

\* the tool-call fragments the processed chunks carried for an index, in order
RECURSIVE FragsIn(_, _)
FragsIn(tcs, index) ==
    IF tcs = <<>> THEN <<>>
    ELSE (IF Head(tcs).index = index THEN <<Head(tcs)>> ELSE <<>>)
         \o FragsIn(Tail(tcs), index)

RECURSIVE FragsOf(_, _)
FragsOf(src, index) ==
    IF src = <<>> THEN <<>>
    ELSE LET m == FirstMessage(Head(src)) IN
         (IF m # None THEN FragsIn(m[1].tool_calls, index) ELSE <<>>)
         \o FragsOf(Tail(src), index)

IsStart(f) == NameNonEmpty(f) /\ f.arguments = <<>>
IsArgsOnly(f) == f.name = None /\ f.arguments # <<>>

\* the arguments texts of the fragments after the first
ArgsAfterStart(frs) == [k \in 1..(Len(frs) - 1) |-> frs[k + 1].arguments]

\* what may stand next to what in JSON made of digits, brackets and commas
Follows(c, d) ==
    CASE c = "[" -> d \in Digits \cup {"[", "]"}
      [] c = "]" -> d \in {"]", ","}
      [] c = "," -> d \in Digits \cup {"["}
      [] OTHER -> d \in Digits \cup {",", "]"}

\* valid JSON, by the grammar alone: one number, or one array that closes
\* at the end of the text; neighbours as the grammar has them; no number
\* with a leading zero
IsJson(s) ==
    /\ s # <<>>
    /\ \A i \in 1..Len(s) : s[i] \in Digits \cup {"[", "]", ","}
    /\ \/ \A i \in 1..Len(s) : s[i] \in Digits
       \/ /\ s[1] = "["
          /\ OpenAt(s, Len(s)) = 0
          /\ \A i \in 1..(Len(s) - 1) : OpenAt(s, i) >= 1
    /\ \A i \in 1..(Len(s) - 1) : Follows(s[i], s[i + 1])
    /\ \A i \in 1..(Len(s) - 1) :
         (s[i] = "0" /\ (i = 1 \/ s[i - 1] \notin Digits)) => s[i + 1] \notin Digits

\* every number of the text is a u64 or has a finite double
NumbersFit(s) ==
    \A i \in 1..Len(s) :
        (s[i] \in Digits /\ (i = 1 \/ s[i - 1] \notin Digits))
            => NumberOf(SubSeq(s, i, DigitsEnd(s, i) - 1)) # None

\* JSON within the limits of serde_json: fewer than RecursionLimit arrays
\* open at once, and no number out of range
WithinLimits(s) == ~Nests(s, RecursionLimit) /\ NumbersFit(s)

\* the fragments of an index are a Start followed by one or more
\* argument-only fragments whose texts concatenate to valid JSON
IsFragmentedCall(frs) ==
    /\ Len(frs) >= 2
    /\ IsStart(frs[1])
    /\ \A k \in 2..Len(frs) : IsArgsOnly(frs[k])
    /\ IsJson(Concat(ArgsAfterStart(frs)))

ToolCallItems(items) == SelectSeq(items, LAMBDA e : e.type = "ToolCall")

\* the output holds exactly one ToolCall for the index, with the name of the
\* Start fragment and the parsed concatenation of the argument texts
OneToolCallFor(index, frs) ==
    LET hits == {k \in 1..Len(tool_calls) : tool_calls[k].index = index}
        want == [id |-> IF frs[1].id # None THEN frs[1].id[1] ELSE "",
                 index |-> index,
                 name |-> frs[1].name[1],
                 arguments |-> FromStr(Concat(ArgsAfterStart(frs)))[1]]
    IN  /\ FromStr(Concat(ArgsAfterStart(frs))) # None
        /\ Cardinality(hits) = 1
        /\ \A k \in hits : tool_calls[k] = want
        /\ ToolCallItems(out) =
             [k \in 1..Len(tool_calls) |->
                ToolCallOut(tool_calls[k].id, tool_calls[k].name,
                            tool_calls[k].arguments)]

Indices == {0, 1}

\* C6 as stated: a Start fragment followed by argument-only fragments whose
\* texts concatenate to valid JSON, then a clean end, yields exactly one
\* ToolCall for the index with the Start's name and the parsed concatenation.
C6_FragmentedAssembly ==
    \A index \in Indices :
        LET frs == FragsOf(source, index) IN
        (Done /\ ~SawError /\ IsFragmentedCall(frs)) => OneToolCallFor(index, frs)

\* C6 amended: the same, for argument fragments none of which starts with
\* the concatenation of the argument fragments before it, and whose texts
\* concatenate to JSON nested fewer than 128 deep with every number in the
\* range of a double.
C6_FragmentedAssemblyIncremental ==
    \A index \in Indices :
        LET frs == FragsOf(source, index) IN
        (Done /\ ~SawError /\ IsFragmentedCall(frs)
              /\ IsIncremental(ArgsAfterStart(frs))
              /\ WithinLimits(Concat(ArgsAfterStart(frs))))
            => OneToolCallFor(index, frs)

\* Start, "[" and "1]" for index 0, then StreamEnded: one ToolCall [1]
C6_Witness ==
    /\ Done
    /\ SawStreamEnded
    /\ LET frs == FragsOf(source, 0) IN
        /\ Len(frs) = 3
        /\ IsFragmentedCall(frs)
        /\ IsIncremental(ArgsAfterStart(frs))
        /\ WithinLimits(Concat(ArgsAfterStart(frs)))
    /\ Len(tool_calls) = 1
    /\ tool_calls[1].arguments = <<"arr", << <<"num", 1>> >> >>
    /\ CountOf(out, "ToolCall") = 1

IsSelfContained(f) ==
    f.id # None /\ NameNonEmpty(f) /\ FromStr(f.arguments) # None

\* C7: once a chunk whose only fragment carries an id, a name and complete
\* JSON arguments has been processed, its ToolCall has been emitted and the
\* accumulator map has no entry for its index.
C7_SelfContainedBypass ==
    (Settled /\ source # <<>>) =>
        LET m == FirstMessage(source[Len(source)]) IN
        (m # None /\ Len(m[1].tool_calls) = 1 /\ IsSelfContained(m[1].tool_calls[1])) =>
            LET f == m[1].tool_calls[1] IN
            /\ f.index \notin DOMAIN calls
            /\ \E j \in 1..Len(Emitted) :
                 Emitted[j] = ToolCallOut(f.id[1], f.name[1], FromStr(f.arguments)[1])

\* a message whose payload is not blank and does not parse as a chunk
IsMalformed(ev) ==
    ev.type = "Message" /\ ~IsBlank(ev.data) /\ ParseChunk(ev.data) = None

\* the decoder state and the items emitted after the read loop has
\* processed the events of src, none of which ends the loop
RECURSIVE Replay(_)
Replay(src) ==
    IF src = <<>>
    THEN [reasoning_response |-> <<>>, calls |-> <<>>, text_response |-> <<>>,
          final_usage |-> UsageNew, events |-> <<>>]
    ELSE LET prev == Replay(SubSeq(src, 1, Len(src) - 1))
             c == ParsedChunk(src[Len(src)])
         IN  IF c = None THEN prev
             ELSE LET r == ProcessChunk(prev, c[1])
                  IN  [reasoning_response |-> r.reasoning_response,
                       calls |-> r.calls,
                       text_response |-> r.text_response,
                       final_usage |-> r.final_usage,
                       events |-> prev.events \o r.events]

WithoutMalformed(src) == SelectSeq(src, LAMBDA ev : ~IsMalformed(ev))

\* the read loop is where it would be had the malformed messages not been sent
AsIfAbsent ==
    pc = "loop" =>
        LET r == Replay(WithoutMalformed(source)) IN
        /\ out \o pending = r.events
        /\ resume = <<>> => Locals = StateOf(r)

\* the step that reads a malformed message
ReadsMalformed ==
    /\ source' # source
    /\ IsMalformed(source'[Len(source')])

\* C8: reading a message whose payload does not parse as a chunk emits
\* nothing, keeps the read loop running and leaves text_response,
\* reasoning_response, calls and final_usage unchanged; state and output
\* are those of the same stream without the malformed messages.
C8_MalformedChunkSkipped ==
    /\ []AsIfAbsent
    /\ [][ReadsMalformed =>
            /\ pc' = "loop"
            /\ pending' = <<>>
            /\ UNCHANGED <<decoder, out, closed, tool_calls, message>>]_vars

\* a malformed message between two chunks that both produced output
C8_Witness ==
    /\ pc = "loop"
    /\ Len(source) = 3
    /\ IsMalformed(source[2])
    /\ ParsedChunk(source[1]) # None
    /\ ParsedChunk(source[3]) # None
    /\ Len(out) = 2
    /\ text_response = <<"a", "b">>

\* the usage block of the last processed chunk that carried one
RECURSIVE LastUsage(_)
LastUsage(src) ==
    IF src = <<>> THEN UsageNew
    ELSE LET c == ParsedChunk(src[Len(src)]) IN
         IF c # None /\ c[1].usage # None THEN c[1].usage[1]
         ELSE LastUsage(SubSeq(src, 1, Len(src) - 1))

\* C9: final_usage, and the usage of the FinalResponse, is the usage block
\* of the last processed chunk that carried one, with or without a choice.
C9_UsageLastWriteWins ==
    /\ resume = <<>> => final_usage = LastUsage(source)
    /\ \A i \in 1..Len(Emitted) :
         Emitted[i].type = "FinalResponse" => Emitted[i].usage = LastUsage(source)

\* usage {1,1,2} on a chunk with a choice, then {5,3,8} on a chunk without
\* choices, then a chunk without usage: the FinalResponse reports {5,3,8}
C9_Witness ==
    /\ Done
    /\ Len(source) >= 3
    /\ FirstMessage(source[1]) # None
    /\ ParsedChunk(source[1])[1].usage = Some(Usage1)
    /\ ParsedChunk(source[2]) = Some(MkChunk(Some(<<>>), Some(Usage2)))
    /\ ParsedChunk(source[3]) # None
    /\ ParsedChunk(source[3])[1].usage = None
    /\ out[Len(out)] = FinalResponseOut(Usage2)

\* C10: the tool calls finalized at stream end are in strictly increasing
\* index order.
C10_IncreasingIndexOrder ==
    \A i, j \in 1..Len(tool_calls) :
        i < j => tool_calls[i].index < tool_calls[j].index

\* the accumulators resident in the map when the read loop is left
Resident == Replay(source).calls

\* the resident indices whose arguments_so_far parses as JSON
ParsingIndices == {i \in DOMAIN Resident : FromStr(Resident[i].arguments) # None}

\* C11: at stream end an accumulator whose arguments do not parse yields no
\* ToolCall and no Error; every accumulator whose arguments parse yields its
\* ToolCall with the parsed arguments, and the FinalResponse is still
\* emitted.
C11_MalformedArgumentsDropped ==
    Done =>
        /\ {tool_calls[k].index : k \in 1..Len(tool_calls)} = ParsingIndices
        /\ Len(tool_calls) = Cardinality(ParsingIndices)
        /\ \A k \in 1..Len(tool_calls) :
             LET e == Resident[tool_calls[k].index] IN
             /\ tool_calls[k].id = e.id
             /\ tool_calls[k].name = e.name
             /\ Some(tool_calls[k].arguments) = FromStr(e.arguments)
        /\ ToolCallItems(out) =
             [k \in 1..Len(tool_calls) |->
                ToolCallOut(tool_calls[k].id, tool_calls[k].name,
                            tool_calls[k].arguments)]
        /\ CountOf(out, "Error") = (IF SawError THEN 1 ELSE 0)
        /\ CountOf(out, "FinalResponse") = 1

\* two accumulators at stream end, one with arguments that do not parse:
\* one ToolCall, no Error, and the FinalResponse
C11_Witness ==
    /\ Done
    /\ DOMAIN Resident = {0, 1}
    /\ Cardinality(ParsingIndices) = 1
    /\ CountOf(out, "ToolCall") = 1
    /\ CountOf(out, "Error") = 0
    /\ out[Len(out)].type = "FinalResponse"

\* C12: once the Event Source has ended or failed (the read loop is left)
\* and the consumer keeps draining, the output terminates, and its last
\* element is a FinalResponse or an Error.
C12_NoSilentTruncation ==
    (pc # "loop") ~>
        (Done /\ out # <<>>
              /\ out[Len(out)].type \in {"FinalResponse", "Error"})

\* a run that failed with a transport error has terminated
C12_Witness ==
    /\ Done
    /\ SawError
    /\ Len(out) >= 3
    /\ out[Len(out)].type \in {"FinalResponse", "Error"}

\* the items the read loop derives from the events of src, message by message
LoopOutput(src) == Replay(src).events

IsPrefix(p, s) == Len(p) <= Len(s) /\ SubSeq(s, 1, Len(p)) = p

\* C13: the output is the items derived from the first message, then those
\* derived from the second, and so on; the consumer receives them in that
\* order; and a ToolCall that finalizes an accumulator comes after every
\* text, argument-increment and reasoning item.
C13_OutputOrdering ==
    /\ [](/\ IsPrefix(LoopOutput(source), Emitted)
          /\ pc = "loop" => Emitted = LoopOutput(source)
          /\ \A i, j \in 1..Len(Emitted) :
               (i < j /\ Emitted[i].type = "ToolCall")
                   => Emitted[j].type \notin {"Message", "Reasoning"})
    /\ [][/\ IsPrefix(out, out')
          /\ IsPrefix(Emitted, Emitted')]_vars

\* a chunk that yields three items, a second chunk with a continuation
\* increment, then the finalizing ToolCall
C13_Witness ==
    /\ Done
    /\ Len(source) >= 3
    /\ Len(LoopOutput(<<source[1]>>)) = 3
    /\ Len(LoopOutput(SubSeq(source, 1, 2))) = 4
    /\ out[5].type = "ToolCall"

\* the decoder state before the last event of the source was read
Before == Replay(SubSeq(source, 1, Len(source) - 1))

\* the tool-call fragments of the last event of the source
LastFragments ==
    LET m == FirstMessage(source[Len(source)]) IN
    IF m # None THEN m[1].tool_calls ELSE <<>>

\* C14 as stated: no fragment, of any kind, leaves arguments_so_far of its
\* index shorter than it was.
C14_ArgumentsNeverShrink ==
    (Settled /\ source # <<>>) =>
        \A i \in DOMAIN Before.calls :
            /\ i \in DOMAIN calls
            /\ Len(calls[i].arguments) >= Len(Before.calls[i].arguments)

\* C14 amended: fragments other than a Start never leave arguments_so_far
\* of their index shorter than it was.
C14_ArgumentsNeverShrinkUnlessStart ==
    (Settled /\ source # <<>>) =>
        \A i \in DOMAIN Before.calls :
            (\A k \in 1..Len(LastFragments) :
                 LastFragments[k].index = i => ~IsStart(LastFragments[k]))
            => /\ i \in DOMAIN calls
               /\ Len(calls[i].arguments) >= Len(Before.calls[i].arguments)

\* continuation fragments have extended the arguments of index 0 to "[1]"
C14_Witness ==
    /\ pc = "loop"
    /\ Len(source) = 3
    /\ 0 \in DOMAIN Before.calls
    /\ Before.calls[0].arguments = <<"[", "1">>
    /\ Len(FragsIn(LastFragments, 0)) = 1
    /\ IsArgsOnly(LastFragments[1])
    /\ calls[0].arguments = <<"[", "1", "]">>

\* C15: no step makes text_response or reasoning_response shorter.
C15_ChannelsOnlyGrow ==
    [][/\ ByteLen(text_response') >= ByteLen(text_response)
       /\ ByteLen(reasoning_response') >= ByteLen(reasoning_response)]_vars

\* a longer value, then a shorter one that was appended, on both channels
C15_Witness ==
    /\ pc = "loop"
    /\ Len(source) = 2
    /\ ChannelValues(source, "content") = << <<"a", "b">>, <<"a">> >>
    /\ text_response = <<"a", "b", "a">>
    /\ reasoning_response = <<"b", "a", "b">>

\* the items emitted for the last event of the source
LastItems == SubSeq(Emitted, Len(Before.events) + 1, Len(Emitted))

\* the accumulated value of a channel in a decoder state
AccOf(st, field) ==
    IF field = "content" THEN st.text_response ELSE st.reasoning_response

\* the value the last event of the source carries for a channel
LastValue(field) ==
    LET m == FirstMessage(source[Len(source)]) IN
    IF m # None /\ m[1][field] # None THEN m[1][field][1] ELSE <<>>

Now == [text_response |-> text_response, reasoning_response |-> reasoning_response]

\* C16: a non-empty new value that is shorter than the accumulated value of
\* its channel, or does not start with it, is emitted verbatim and appended
\* to the accumulated value.
C16_ReconcilerStep3 ==
    (Settled /\ source # <<>>) =>
        \A ch \in Channels :
            LET v == LastValue(ch[1])
                acc == AccOf(Before, ch[1])
            IN  (v # <<>> /\ (ByteLen(v) < ByteLen(acc) \/ ~StartsWith(v, acc))) =>
                    /\ TextOf(LastItems, ch[2]) = v
                    /\ AccOf(Now, ch[1]) = acc \o v

\* C17: the FinalResponse carries, with the usage, the assembled assistant
\* message: the accumulated text, the accumulated reasoning (absent when
\* empty) and the tool calls finalized from the map.
C17_FinalCarriesMessage ==
    \A i \in 1..Len(Emitted) :
        Emitted[i].type = "FinalResponse" =>
            /\ Emitted[i].usage = final_usage
            /\ Emitted[i].message =
                 Some([content |-> text_response,
                       reasoning_content |->
                           IF reasoning_response = <<>> THEN None
                           ELSE Some(reasoning_response),
                       tool_calls |-> tool_calls])

\* the locals of the stream body are gone
Released ==
    /\ final_usage = UsageNew
    /\ text_response = <<>>
    /\ reasoning_response = <<>>
    /\ calls = <<>>
    /\ tool_calls = <<>>
    /\ pending = <<>>
    /\ resume = <<>>

C20_StartCase ==
    (Settled /\ source # <<>>) =>
        LET m == FirstMessage(source[Len(source)]) IN
        (/\ m # None
         /\ m[1].content = None
         /\ m[1].reasoning_content = None
         /\ Len(m[1].tool_calls) = 1
         /\ IsStart(m[1].tool_calls[1])) =>
            LET f == m[1].tool_calls[1] IN
            /\ DOMAIN calls = (DOMAIN Before.calls) \cup {f.index}
            /\ calls[f.index] = [id |-> IF f.id = None THEN "" ELSE f.id[1],
                                 name |-> f.name[1],
                                 arguments |-> <<>>]
            /\ \A i \in (DOMAIN calls) \ {f.index} : calls[i] = Before.calls[i]
            /\ LastItems = <<>>

\* a Start without id has overwritten the accumulator of index 0, which had
\* arguments, while index 1 has an accumulator of its own
C20_Witness ==
    /\ pc = "loop"
    /\ Len(source) = 3
    /\ DOMAIN Before.calls = {0, 1}
    /\ Before.calls[0].arguments # <<>>
    /\ LastFragments = <<Start(0, None, "f")>>
    /\ calls[0] = [id |-> "", name |-> "f", arguments |-> <<>>]
    /\ calls[1] = Before.calls[1]

\* ------------------------------------------------------------------------
\* Two calls, interleaved
\* ------------------------------------------------------------------------
\* the locals of a body that reads src with no other call around, while it
\* still has to yield the last `left` items of the arm of the last event
LocalsAlone(src, left) ==
    IF left = 0 THEN StateOf(Replay(src))
    ELSE LET r == ProcessChunk(Replay(SubSeq(src, 1, Len(src) - 1)),
                               ParsedChunk(src[Len(src)])[1])
         IN  r.at[Len(r.events) - left + 1]

\* the items a call run alone produces after its read loop, given the
\* ToolCalls it has finalized
AfterLoop(x) ==
    (IF \E i \in 1..Len(x.source) : x.source[i].type = "Error"
     THEN <<ErrorOut>> ELSE <<>>)
    \o [k \in 1..Len(x.tool_calls) |->
          ToolCallOut(x.tool_calls[k].id, x.tool_calls[k].name,
                      x.tool_calls[k].arguments)]
    \o <<FinalResponseOut(Replay(x.source).final_usage)>>

\* the call x is where a call run alone on the events x.source is: in the
\* read loop its accumulators, usage and output are those of the replay of
\* its own source; afterwards the accumulators left are among them, and once
\* it has returned its ToolCalls are those of its own accumulators that
\* parse and its output is the loop output followed by AfterLoop
AsAlone(x) ==
    LET r == Replay(x.source)
        em == x.out \o x.pending
        here == LocalsAlone(x.source, Len(x.resume))
    IN  /\ IsPrefix(r.events, em)
        /\ x.text_response = here.text_response
        /\ x.reasoning_response = here.reasoning_response
        /\ x.final_usage = here.final_usage
        /\ \A i \in DOMAIN x.calls :
              i \in DOMAIN here.calls /\ x.calls[i] = here.calls[i]
        /\ x.pc = "loop" => (x.calls = here.calls /\ em = r.events)
        /\ x.pc = "done" =>
              /\ {x.tool_calls[k].index : k \in 1..Len(x.tool_calls)} =
                    {i \in DOMAIN r.calls : FromStr(r.calls[i].arguments) # None}
              /\ \A k, l \in 1..Len(x.tool_calls) :
                    x.tool_calls[k].index = x.tool_calls[l].index => k = l
              /\ \A k \in 1..Len(x.tool_calls) :
                    LET e == r.calls[x.tool_calls[k].index] IN
                    /\ x.tool_calls[k].id = e.id
                    /\ x.tool_calls[k].name = e.name
                    /\ Some(x.tool_calls[k].arguments) = FromStr(e.arguments)
              /\ em = r.events \o AfterLoop(x)

\* C18: with the steps of two calls interleaved at every suspension point,
\* each call's state and output are those of the same call run alone on its
\* own events, and a step of the running call leaves the channel
\* accumulators, accumulator map, usage and output of the waiting call as
\* they were.
C18_InstanceIsolation ==
    /\ [](AsAlone(Snapshot) /\ AsAlone(other))
    /\ [][other' # other => (other' = Snapshot /\ Snapshot' = other)]_vars

\* the waiting call stopped in its read loop with an accumulator of its own
\* at index 0; the running call then read a different stream to its end and
\* finalized a ToolCall from its own accumulator at the same index
C18_Witness ==
    /\ Done
    /\ other.pc = "loop"
    /\ other.source # <<>>
    /\ other.source # source
    /\ 0 \in DOMAIN other.calls
    /\ other.reasoning_response = <<>>
    /\ reasoning_response = <<"b">>
    /\ \E k \in 1..Len(out) : out[k].type = "ToolCall" /\ out[k].name = "f"
    /\ \A k \in 1..Len(other.out) : other.out[k].type # "ToolCall"

\* ------------------------------------------------------------------------
\* Continuation and orphan fragments
\* ------------------------------------------------------------------------
\* the fragment of the last event of the source, when that event is a chunk
\* that carries one tool-call fragment and nothing else
OnlyFragment ==
    LET m == FirstMessage(source[Len(source)]) IN
    IF /\ m # None
       /\ m[1].content = None
       /\ m[1].reasoning_content = None
       /\ Len(m[1].tool_calls) = 1
    THEN Some(m[1].tool_calls[1]) ELSE None

\* C21: a fragment with non-empty arguments whose index has an accumulator
\* emits the increment (the part of the fragment beyond arguments_so_far when
\* the fragment starts with it, the whole fragment otherwise) as one Message
\* when it is non-empty, and leaves arguments_so_far equal to its previous
\* value followed by the emitted increment; id, name and the other
\* accumulators stay.
C21_ContinuationCase ==
    (Settled /\ source # <<>> /\ OnlyFragment # None) =>
        LET f == OnlyFragment[1] IN
        (f.arguments # <<>> /\ f.index \in DOMAIN Before.calls) =>
            LET prev == Before.calls[f.index]
                inc == IF StartsWith(f.arguments, prev.arguments)
                       THEN SliceFrom(f.arguments, Len(prev.arguments))
                       ELSE f.arguments
            IN  /\ LastItems = (IF inc = <<>> THEN <<>> ELSE <<MessageOut(inc)>>)
                /\ DOMAIN calls = DOMAIN Before.calls
                /\ calls[f.index] = [id |-> prev.id, name |-> prev.name,
                                     arguments |-> prev.arguments
                                                   \o TextOf(LastItems, "Message")]
                /\ \A i \in (DOMAIN calls) \ {f.index} : calls[i] = Before.calls[i]

\* an accumulator holding "[", then the cumulative fragment "[1": the
\* increment "1" is emitted and the accumulator holds "[1"
C21_Witness ==
    /\ pc = "loop"
    /\ Len(source) = 3
    /\ OnlyFragment = Some(ArgsOnly(0, <<"[", "1">>))
    /\ 0 \in DOMAIN Before.calls
    /\ Before.calls[0].arguments = <<"[">>
    /\ Before.calls[0].name = "f"
    /\ LastItems = <<MessageOut(<<"1">>)>>
    /\ calls[0].arguments = <<"[", "1">>

\* C22: when arguments_so_far of index 0 and the accumulated text are equal
\* and a chunk brings the same non-empty value as fragment arguments and as
\* content, the continuation and the text reconciler emit the same increment
\* and end with the same accumulated value.
C22_SameRule ==
    (/\ Settled
     /\ source # <<>>
     /\ 0 \in DOMAIN Before.calls
     /\ Before.calls[0].arguments = Before.text_response) =>
        /\ calls[0].arguments = text_response
        /\ Len(LastItems) \in {0, 2}
        /\ Len(LastItems) = 2 => LastItems[1] = LastItems[2]

\* C23: a fragment with non-empty arguments whose index has no accumulator
\* emits its arguments text as one Message and nothing else (no Error), and
\* creates the accumulator: id of the fragment, or "call_" and the index when
\* absent; name of the fragment, or "unknown" when absent; arguments_so_far
\* the whole fragment text.  The read loop goes on and the other accumulators
\* stay.
C23_OrphanCase ==
    (Settled /\ source # <<>> /\ OnlyFragment # None) =>
        LET f == OnlyFragment[1] IN
        (f.arguments # <<>> /\ f.index \notin DOMAIN Before.calls) =>
            /\ LastItems = <<MessageOut(f.arguments)>>
            /\ CountOf(Emitted, "Error") = 0
            /\ DOMAIN calls = (DOMAIN Before.calls) \cup {f.index}
            /\ calls[f.index] =
                 [id |-> IF f.id = None
                         THEN (IF f.index = 0 THEN "call_0" ELSE "call_1")
                         ELSE f.id[1],
                  name |-> IF f.name = None THEN "unknown" ELSE f.name[1],
                  arguments |-> f.arguments]
            /\ \A i \in DOMAIN Before.calls : calls[i] = Before.calls[i]

\* index 0 has an accumulator; an arguments-only fragment for index 1
\* arrives without a Start
C23_Witness ==
    /\ Settled
    /\ Len(source) = 2
    /\ DOMAIN Before.calls = {0}
    /\ OnlyFragment = Some(ArgsOnly(1, <<"1">>))
    /\ LastItems = <<MessageOut(<<"1">>)>>
    /\ calls[1] = [id |-> "call_1", name |-> "unknown", arguments |-> <<"1">>]
    /\ calls[0] = Before.calls[0]

\* ------------------------------------------------------------------------
\* Blank payloads
\* ------------------------------------------------------------------------
\* a message whose payload is empty or made of whitespace only: every
\* character of it has the Unicode property White_Space
IsBlankMessage(ev) ==
    /\ ev.type = "Message"
    /\ ~ev.data.json
    /\ \A i \in 1..Len(ev.data.raw) : IsWhitespace(ev.data.raw[i])

\* the step that reads a blank message
ReadsBlank ==
    /\ source' # source
    /\ IsBlankMessage(source'[Len(source')])

\* C24: reading a message whose payload is empty or whitespace only emits
\* nothing (no Error either), keeps the read loop running and leaves
\* text_response, reasoning_response, calls and final_usage unchanged.
C24_BlankPayloadNoOp ==
    [][ReadsBlank =>
        /\ pc' = "loop"
        /\ pending' = <<>>
        /\ UNCHANGED <<decoder, out, closed, tool_calls, message>>]_vars

\* a whitespace-only message read after a chunk that left text, an
\* accumulator and a usage, followed by an empty message
C24_Witness ==
    /\ pc = "loop"
    /\ Len(source) = 3
    /\ ParsedChunk(source[1]) # None
    /\ source[2] = MessageEvent(RawData(<<" ", "U+3000">>))
    /\ source[3] = MessageEvent(RawData(<<>>))
    /\ text_response = <<"b">>
    /\ reasoning_response = <<"a">>
    /\ 0 \in DOMAIN calls
    /\ final_usage = Usage2
    /\ Len(out) = 3
    /\ pending = <<>>

\* ------------------------------------------------------------------------
\* Choices of a chunk
\* ------------------------------------------------------------------------
\* the choices of the chunk of an event (none when it carries no chunk)
ChoicesOf(ev) ==
    LET c == ParsedChunk(ev) IN IF c = None THEN <<>> ELSE c[1].output[1]

\* the event with the choices after the first removed from its chunk
FirstChoiceOnly(ev) ==
    IF Len(ChoicesOf(ev)) > 1
    THEN MessageEvent([ev.data EXCEPT
             !.chunk = MkChunk(Some(<<ChoicesOf(ev)[1]>>), ev.data.chunk.usage)])
    ELSE ev

\* C25: the items emitted and the decoder state are those of the same
\* stream with every chunk cut down to its first choice.
C25_FirstChoiceOnly ==
    LET cut == Replay([i \in 1..Len(source) |-> FirstChoiceOnly(source[i])]) IN
    /\ IsPrefix(cut.events, Emitted)
    /\ pc = "loop" => Emitted = cut.events
    /\ resume = <<>> =>
          /\ text_response = cut.text_response
          /\ reasoning_response = cut.reasoning_response
          /\ final_usage = cut.final_usage
          /\ pc = "loop" => calls = cut.calls

\* two chunks whose later choices carry reasoning, text and tool-call
\* fragments: only the text of the first choice of the first chunk shows
C25_Witness ==
    /\ pc = "loop"
    /\ Len(source) = 2
    /\ Len(ChoicesOf(source[1])) = 2
    /\ ChoicesOf(source[1])[2].reasoning_content # None
    /\ ChoicesOf(source[1])[2].tool_calls # <<>>
    /\ Len(ChoicesOf(source[2])) = 3
    /\ text_response = <<"a">>
    /\ reasoning_response = <<>>
    /\ calls = <<>>
    /\ final_usage = Usage2
    /\ Emitted = <<MessageOut(<<"a">>)>>

\* ------------------------------------------------------------------------
\* The two channels
\* ------------------------------------------------------------------------
\* the items of one type among the items emitted for the last event
LastOf(type) == SelectSeq(LastItems, LAMBDA e : e.type = type)

\* C26: what a chunk does to a channel depends on that channel alone.  The
\* reasoning accumulator and the Reasoning items of the step are those of
\* the reasoning reconciler applied to the chunk's reasoning_content
\* (unchanged and none when it is absent or empty), whatever the content;
\* the text accumulator and, for a chunk without tool-call fragments, the
\* Message items are those of the text reconciler applied to the content
\* (unchanged and none when it is absent or empty), whatever the reasoning.
C26_ChannelsIndependent ==
    (Settled /\ source # <<>> /\ FirstMessage(source[Len(source)]) # None) =>
        LET m == FirstMessage(source[Len(source)])[1]
            v == LastValue("content")
            w == LastValue("reasoning_content")
            t == TextStep(Before.text_response, v)
            r == ReasoningStep(Before.reasoning_response, w)
        IN  /\ text_response = (IF v = <<>> THEN Before.text_response ELSE t.acc)
            /\ m.tool_calls = <<>> =>
                 LastOf("Message") =
                    (IF v = <<>> \/ t.inc = <<>> THEN <<>> ELSE <<MessageOut(t.inc)>>)
            /\ reasoning_response =
                 (IF w = <<>> THEN Before.reasoning_response ELSE r.acc)
            /\ LastOf("Reasoning") =
                 (IF w = <<>> \/ r.inc = <<>> THEN <<>> ELSE <<ReasoningOut(r.inc)>>)

\* a chunk with content "a" and reasoning "b", then a chunk with reasoning
\* "a" alone: the reasoning channel moves, the text channel stays
C26_Witness ==
    /\ pc = "loop"
    /\ Len(source) = 2
    /\ Before.text_response = <<"a">>
    /\ Before.reasoning_response = <<"b">>
    /\ LastValue("content") = <<>>
    /\ LastValue("reasoning_content") = <<"a">>
    /\ text_response = <<"a">>
    /\ reasoning_response = <<"a">>
    /\ LastItems = <<ReasoningOut(<<"a">>)>>

\* ------------------------------------------------------------------------
\* Pipeline
\* ------------------------------------------------------------------------
\* C27: an event is requested from the Event Source only in the read loop
\* and only when every item derived from the events before has been yielded
\* to the consumer and the arm of the last one has run to its end; events
\* are taken one at a time, so the items not yet yielded all derive from the
\* last event.
C27_SuspendAtEachEvent ==
    /\ [][source' # source =>
            /\ pc = "loop"
            /\ pending = <<>>
            /\ resume = <<>>
            /\ out = LoopOutput(source)
            /\ Len(source') = Len(source) + 1
            /\ SubSeq(source', 1, Len(source)) = source]_vars
    /\ []((pc = "loop" /\ source # <<>>) =>
            /\ IsPrefix(Before.events, out)
            /\ out \o pending = Before.events \o LastItems)

\* the second event gave three items; the consumer has received the first
\* and the body is suspended at its yield with two items left
C27_Witness ==
    /\ pc = "loop"
    /\ Len(source) = 2
    /\ Before.events # <<>>
    /\ Len(LastItems) = 3
    /\ Len(out) = Len(Before.events) + 1
    /\ Len(pending) = 2

\* C28: for each channel the increments emitted so far concatenate to the
\* accumulated value of the channel, and the text and reasoning of the
\* assembled message are what the consumer received as deltas.
C28_EmittedAgreesWithState ==
    /\ resume = <<>> =>
          \A ch \in Channels : TextOf(Emitted, ch[2]) = AccOf(Now, ch[1])
    /\ Done =>
         /\ message[1].content = TextOf(out, "Message")
         /\ message[1].reasoning_content =
              (IF TextOf(out, "Reasoning") = <<>> THEN None
               ELSE Some(TextOf(out, "Reasoning")))

\* ------------------------------------------------------------------------
\* Repeated snapshots
\* ------------------------------------------------------------------------
\* the last chunk repeats the accumulated value of the channel
Resent(field) ==
    LastValue(field) # <<>> /\ LastValue(field) = AccOf(Before, field)

\* the last chunk carries one fragment, whose arguments repeat
\* arguments_so_far of its index
ResentArguments ==
    /\ Len(LastFragments) = 1
    /\ LastFragments[1].arguments # <<>>
    /\ LastFragments[1].index \in DOMAIN Before.calls
    /\ LastFragments[1].arguments = Before.calls[LastFragments[1].index].arguments

\* C29: a channel value equal to the accumulated value of its channel leaves
\* that value as it is and emits nothing for the channel; a continuation
\* fragment whose arguments equal arguments_so_far leaves the accumulators
\* as they are and emits nothing.  (A Message can come from the text channel
\* or from a fragment, so none is emitted when neither side brings anything
\* new.)
C29_SnapshotResendIdempotent ==
    (Settled /\ source # <<>>) =>
        /\ Resent("reasoning_content") =>
             /\ reasoning_response = Before.reasoning_response
             /\ LastOf("Reasoning") = <<>>
        /\ Resent("content") =>
             /\ text_response = Before.text_response
             /\ (LastFragments = <<>> \/ ResentArguments) => LastOf("Message") = <<>>
        /\ ResentArguments =>
             /\ calls = Before.calls
             /\ (LastValue("content") = <<>> \/ Resent("content"))
                    => LastOf("Message") = <<>>

\* a chunk with text, reasoning and a fragment is delivered twice: the
\* second delivery emits nothing and changes nothing
C29_Witness ==
    /\ pc = "loop"
    /\ Len(source) = 2
    /\ source[2] = source[1]
    /\ Resent("content")
    /\ Resent("reasoning_content")
    /\ ResentArguments
    /\ Len(Before.events) = 3
    /\ Emitted = Before.events
    /\ text_response = <<"b">>
    /\ calls[0].arguments = <<"1">>

\* ------------------------------------------------------------------------
\* After a transport error
\* ------------------------------------------------------------------------
\* the text and reasoning deltas among some items
Deltas(items) == SelectSeq(items, LAMBDA e : e.type \in {"Message", "Reasoning"})

\* C30: once the Event Source has yielded a transport error no further
\* event is requested from it: the error stays the last event of the
\* source, and from then on the accumulated text and reasoning, the usage
\* and the arguments of the accumulators do not change and no further delta
\* is emitted.
C30_ErrorStopsConsumption ==
    /\ [](SawError => (source[Len(source)] = TransportError /\ pc # "loop"))
    /\ [][SawError =>
            /\ source' = source
            /\ UNCHANGED <<text_response, reasoning_response, final_usage>>
            /\ \A i \in DOMAIN calls' : i \in DOMAIN calls /\ calls'[i] = calls[i]
            /\ Deltas(out' \o pending') = Deltas(out \o pending)]_vars

\* two chunks were processed, then the transport error came; the run ended
\* with the source closed and the deltas of the two chunks only
C30_Witness ==
    /\ Done
    /\ closed
    /\ Len(source) = 3
    /\ source[3] = TransportError
    /\ ParsedChunk(source[1]) # None
    /\ ParsedChunk(source[2]) # None
    /\ Deltas(out) = LoopOutput(source)
    /\ Len(Deltas(out)) >= 2
    /\ text_response # <<>>

\* ------------------------------------------------------------------------
\* Finalization
\* ------------------------------------------------------------------------
\* the indices finalized with a ToolCall so far
Finalized == {tool_calls[k].index : k \in 1..Len(tool_calls)}

\* C31: every ToolCall emitted finalizes one accumulator of the map, no
\* index is finalized twice, an accumulator that has been finalized is no
\* longer in the map, and when the stream body has returned the map is empty
\* and each accumulator whose arguments parse has exactly one ToolCall, with
\* its id and name.
C31_FinalizedExactlyOnce ==
    LET resident == Resident
        parsing == {i \in DOMAIN resident : FromStr(resident[i].arguments) # None}
        items == ToolCallItems(Emitted)
    IN  /\ \A k, l \in 1..Len(tool_calls) :
             tool_calls[k].index = tool_calls[l].index => k = l
        /\ Len(items) = Len(tool_calls)
        /\ \A k \in 1..Len(tool_calls) :
             /\ tool_calls[k].index \in DOMAIN resident
             /\ items[k].id = resident[tool_calls[k].index].id
             /\ items[k].name = resident[tool_calls[k].index].name
        /\ pc \in {"flush", "done"} =>
             /\ Finalized \cap DOMAIN calls = {}
             /\ parsing \subseteq (Finalized \cup DOMAIN calls)
        /\ pc = "done" =>
             /\ calls = <<>>
             /\ Finalized = parsing

\* two accumulators with different names at stream end, both with
\* arguments that parse: two ToolCalls, and an empty map
C31_Witness ==
    /\ Done
    /\ DOMAIN Resident = {0, 1}
    /\ ParsingIndices = {0, 1}
    /\ Resident[0].name # Resident[1].name
    /\ CountOf(out, "ToolCall") = 2
    /\ calls = <<>>

\* ------------------------------------------------------------------------
\* Order within a chunk
\* ------------------------------------------------------------------------
\* every fragment of the last chunk has arguments and an index that is new
\* to the map and to the fragments before it, so that each one is emitted
\* whole
AllOrphans ==
    /\ \A k \in 1..Len(LastFragments) :
         /\ LastFragments[k].arguments # <<>>
         /\ LastFragments[k].index \notin DOMAIN Before.calls
    /\ \A k, l \in 1..Len(LastFragments) :
         LastFragments[k].index = LastFragments[l].index => k = l

\* C32: the items emitted for a chunk are the reasoning delta of the chunk,
\* then the argument events of its fragments in the order of the fragments,
\* then its text delta.
C32_OrderWithinChunk ==
    (Settled /\ source # <<>> /\ FirstMessage(source[Len(source)]) # None) =>
        LET v == LastValue("content")
            w == LastValue("reasoning_content")
            rs == IF w = <<>> THEN <<>>
                  ELSE ReasoningYield(ReasoningStep(Before.reasoning_response, w).inc)
            xs == IF v = <<>> THEN <<>>
                  ELSE TextYield(TextStep(Before.text_response, v).inc)
            ts == ProcessToolCalls(Before.calls, LastFragments).events
        IN  /\ LastItems = rs \o ts \o xs
            /\ AllOrphans =>
                 ts = [k \in 1..Len(LastFragments) |->
                         MessageOut(LastFragments[k].arguments)]

\* a first chunk with reasoning "b", fragments "1" for index 0 and "[" for
\* index 1, and text "a"
C32_Witness ==
    /\ pc = "loop"
    /\ Len(source) = 1
    /\ AllOrphans
    /\ Emitted = <<ReasoningOut(<<"b">>), MessageOut(<<"1">>),
                   MessageOut(<<"[">>), MessageOut(<<"a">>)>>

\* ------------------------------------------------------------------------
\* Closing the Event Source
\* ------------------------------------------------------------------------
\* C33: the Event Source is open while the read loop runs, and it has been
\* closed by the time the accumulators are flushed: whenever a ToolCall or
\* the FinalResponse has been produced, or a ToolCall has been pushed, the
\* Event Source is closed, whichever way the read loop was left.
C33_ClosedBeforeFinalization ==
    /\ pc = "loop" => ~closed
    /\ pc \in {"flush", "done"} => closed
    /\ tool_calls # <<>> => closed
    /\ \A i \in 1..Len(Emitted) :
         Emitted[i].type \in {"ToolCall", "FinalResponse"} => closed

\* the read loop was left by a transport error with one accumulator in the
\* map; the body is suspended at the yield of its ToolCall and the Event
\* Source is closed
C33_Witness ==
    /\ pc = "flush"
    /\ SawError
    /\ closed
    /\ yielded
    /\ out[Len(out)].type = "ToolCall"
    /\ CountOf(out, "ToolCall") = 1
    /\ CountOf(out, "FinalResponse") = 0

\* ------------------------------------------------------------------------
\* Identity of an accumulator
\* ------------------------------------------------------------------------
\* C34: a fragment with non-empty arguments for an index that has an
\* accumulator leaves the id and the name of that accumulator as they were,
\* whatever id and name the fragment carries, creates or removes no
\* accumulator and leaves those of the other indices unchanged.
C34_ContinuationKeepsIdentity ==
    (Settled /\ source # <<>> /\ OnlyFragment # None) =>
        LET f == OnlyFragment[1] IN
        (f.arguments # <<>> /\ f.index \in DOMAIN Before.calls) =>
            /\ DOMAIN calls = DOMAIN Before.calls
            /\ calls[f.index].id = Before.calls[f.index].id
            /\ calls[f.index].name = Before.calls[f.index].name
            /\ \A i \in (DOMAIN calls) \ {f.index} : calls[i] = Before.calls[i]

\* accumulators made up for indices 1 and 0, then a fragment for index 0
\* that carries the id "c0" and the name "f"
C34_Witness ==
    /\ pc = "loop"
    /\ Len(source) = 3
    /\ DOMAIN Before.calls = {0, 1}
    /\ OnlyFragment = Some(MkToolCall(0, Some("c0"), Some("f"), <<"1">>))
    /\ calls[0].id = "call_0"
    /\ calls[0].name = "unknown"
    /\ calls[1] = Before.calls[1]

\* ------------------------------------------------------------------------
\* Usage when no chunk reports one
\* ------------------------------------------------------------------------
\* no processed chunk of the source carries a usage block
NoUsageSeen ==
    \A i \in 1..Len(source) :
        ParsedChunk(source[i]) # None => ParsedChunk(source[i])[1].usage = None

\* C35: when no processed chunk carries a usage block, final_usage is 0 in
\* its three counters and the FinalResponse reports these.
C35_ZeroUsageByDefault ==
    NoUsageSeen =>
        LET zero == [input_tokens |-> 0, output_tokens |-> 0, total_tokens |-> 0] IN
        /\ final_usage = zero
        /\ \A i \in 1..Len(Emitted) :
             Emitted[i].type = "FinalResponse" => Emitted[i].usage = zero
        /\ Done => out[Len(out)].type = "FinalResponse"

\* two chunks with text and a fragment but no usage, then the end of the
\* stream: the FinalResponse reports 0, 0, 0
C35_Witness ==
    /\ Done
    /\ NoUsageSeen
    /\ Len(source) = 3
    /\ ParsedChunk(source[1]) # None
    /\ ParsedChunk(source[2]) # None
    /\ SawStreamEnded
    /\ text_response # <<>>
    /\ CountOf(out, "ToolCall") = 1
    /\ out[Len(out)].usage.total_tokens = 0

\* ------------------------------------------------------------------------
\* Open events
\* ------------------------------------------------------------------------
\* the step that reads an Open event
ReadsOpen ==
    /\ source' # source
    /\ source'[Len(source')].type = "Open"

\* C36: reading an Open event emits nothing, keeps the read loop running
\* and leaves text_response, reasoning_response, calls and final_usage
\* unchanged; state and output in the read loop are those of the same stream
\* without its Open events.
C36_OpenIsNoOp ==
    /\ [](pc = "loop" =>
            LET r == Replay(SelectSeq(source, LAMBDA ev : ev.type # "Open")) IN
            /\ out \o pending = r.events
            /\ resume = <<>> => Locals = StateOf(r))
    /\ [][ReadsOpen =>
            /\ pc' = "loop"
            /\ pending' = <<>>
            /\ UNCHANGED <<decoder, out, closed, tool_calls, message>>]_vars

\* an Open event read after two chunks that left text, a usage and an
\* accumulator
C36_Witness ==
    /\ pc = "loop"
    /\ Len(source) = 3
    /\ source[3] = OpenEvent
    /\ text_response = <<"a">>
    /\ final_usage = Usage1
    /\ 0 \in DOMAIN calls
    /\ Len(out) = 2
    /\ pending = <<>>

\* ------------------------------------------------------------------------
\* Fragments that carry nothing
\* ------------------------------------------------------------------------
\* C37: a fragment with empty arguments whose name is absent or empty emits
\* nothing and leaves the map as it was, with or without an id on the
\* fragment and with or without an accumulator at its index.
C37_EmptyFragmentIgnored ==
    (Settled /\ source # <<>> /\ OnlyFragment # None) =>
        LET f == OnlyFragment[1] IN
        (f.arguments = <<>> /\ (f.name = None \/ f.name = Some(""))) =>
            /\ LastItems = <<>>
            /\ calls = Before.calls

\* an accumulator at index 0, then a fragment for index 0 with an id, an
\* empty name and empty arguments
C37_Witness ==
    /\ pc = "loop"
    /\ Len(source) = 2
    /\ DOMAIN Before.calls = {0}
    /\ Before.calls[0].arguments # <<>>
    /\ OnlyFragment = Some(MkToolCall(0, Some("c0"), Some(""), <<>>))
    /\ calls = Before.calls
    /\ Emitted = Before.events

\* ------------------------------------------------------------------------
\* Conversion of a non-streaming response
\* ------------------------------------------------------------------------
\* the first choice is an assistant message with nothing to show: reasoning
\* absent or empty, content empty or whitespace only, no tool call
NothingToShow(msg) ==
    /\ msg.role = "assistant"
    /\ (msg.reasoning_content = None \/ msg.reasoning_content = Some(<<>>))
    /\ \A i \in 1..Len(msg.content) : msg.content[i] \in {" ", "\t", "\n", "\r"}
    /\ msg.tool_calls = <<>>

\* C38: the conversion fails with a ResponseError when the response has no
\* choices, when the message of its first choice is not an assistant
\* message, and when that message has nothing to show; a conversion that
\* succeeds never has an empty list of contents.
C38_ConversionFailures ==
    converted # None =>
        LET r == converted[1]
            cs == response.choices
        IN  /\ (\/ cs = <<>>
                \/ cs[1].message.role # "assistant"
                \/ NothingToShow(cs[1].message))
                    => (~r.ok /\ r.error = "ResponseError")
            /\ r.ok => r.choice # <<>>

\* the first choice is an assistant message with whitespace as content, an
\* empty reasoning and no tool call, the second choice has text: the
\* conversion has failed
C38_Witness ==
    /\ converted # None
    /\ ~converted[1].ok
    /\ converted[1].detail = "Response contained no content"
    /\ Len(response.choices) = 2
    /\ response.choices[1].message =
         MkRoleMessage("assistant", <<" ", "\n">>, Some(<<>>), <<>>)
    /\ response.choices[2].message.content = <<"a">>

\* ------------------------------------------------------------------------
\* Task client
\* ------------------------------------------------------------------------
\* the request at position i was sent by a call of get_task_status
IsGetTask(i) == requests[i].url = "/api/v1/get_task"

\* the step is a poll of a call of get_task_status
PollsGetTask == <<task_id, task_result>>' # <<task_id, task_result>>

\* C39: a call of get_task_status with an id less than or equal to 0 returns
\* InvalidTaskId with that id and sends nothing, whatever other calls are
\* under way; every request to /api/v1/get_task carries an id greater than
\* 0, that of the call that sent it, and no call suspended on such a request
\* has another id.
C39_InvalidTaskIdNoRequest ==
    /\ []((task_result # None /\ task_id <= 0) =>
            task_result[1] = [ok |-> FALSE, error |-> "InvalidTaskId",
                              id |-> task_id, status |-> 0])
    /\ [](\A i \in 1..Len(requests) : IsGetTask(i) => requests[i].id > 0)
    /\ [](\A i \in 1..Len(flights) :
            flights[i].op = "get_task_status" => flights[i].id > 0)
    /\ [][/\ (PollsGetTask /\ task_id' <= 0) =>
               /\ task_result' # None
               /\ UNCHANGED <<requests, flights, task_response>>
          /\ (requests' # requests /\ PollsGetTask) =>
               /\ task_id' > 0
               /\ task_result' = None
               /\ requests' = Append(requests, [url |-> "/api/v1/get_task",
                                                 id |-> task_id'])]_vars

\* the call with id 1 has sent its request and is suspended in send(); the
\* call with id 0 made meanwhile returned InvalidTaskId(0) and sent nothing
C39_Witness ==
    /\ task_id = 0
    /\ task_result = Some(InvalidTaskId(0))
    /\ requests = <<GetTaskRequest(1)>>
    /\ flights = <<Flight("get_task_status", 1, "send", 0)>>

====
